---- MODULE Spec2Model ----
\* Skeleton and width computation (SkeletonCalculatorType1) and arc-length
\* resampling (WormParsing.normalize_all_frames, normalize_parameter) of
\* movement_validation/prefeatures/pre_features.py.
\*
\* Numbers.  A numpy array is a function on 0..k-1, so a[i] of the code is
\* a[i] here; a contour side of shape (2,k) is a function on 0..1 whose
\* value at 0 is the x row and at 1 the y row.  An optional value is a
\* tuple: << >> is None and <<a>> is the array a.
\* Coordinates are integers in units of 1/70 pixel: with that unit the
\* window-5 cubic Savitzky-Golay filter maps whole-pixel input to integers
\* exactly.  A distance is kept as its square (the code only compares
\* distances or divides by them), a unit vector component as an integer in
\* units of 1/1000, a width as its square and a skeleton point as twice
\* the midpoint.  Fractions of the code (0.15, 0.3, 1/12) are exact
\* rationals.  NaN is a value of its own: every comparison with it is
\* false and argmin returns the first position that holds it, as in numpy.
EXTENDS Integers, Sequences, FiniteSets, TLC

\* ------------------------------------------------------------ arithmetic

NaN == 0 - 2000000000

PixelUnit == 2 * 35
VecUnit == 10 * 100

Abs(a) == IF a < 0 THEN 0 - a ELSE a

Floor(num, den) == num \div den
Ceil(num, den) == 0 - ((0 - num) \div den)

RECURSIVE ISqrtIter(_, _, _)
ISqrtIter(n, lo, hi) ==
    IF lo >= hi THEN lo
    ELSE LET mid == (lo + hi + 1) \div 2
         IN IF mid * mid <= n THEN ISqrtIter(n, mid, hi)
                              ELSE ISqrtIter(n, lo, mid - 1)

\* floor of the square root
ISqrt(n) == ISqrtIter(n, 0, IF n < 46340 THEN n ELSE 46340)

\* a / b of floating point, truncated; 0/0 is NaN
FDiv(a, b) ==
    IF a = NaN \/ b = NaN \/ b = 0 THEN NaN
    ELSE IF a < 0 THEN 0 - ((0 - a) \div b) ELSE a \div b

FMul(a, b) == IF a = NaN \/ b = NaN THEN NaN ELSE a * b
FAdd(a, b) == IF a = NaN \/ b = NaN THEN NaN ELSE a + b
FNeg(a) == IF a = NaN THEN NaN ELSE 0 - a
FLt(a, b) == a # NaN /\ b # NaN /\ a < b
FGt(a, b) == a # NaN /\ b # NaN /\ a > b

\* ------------------------------------------------------------ arrays

Size(a) == Cardinality(DOMAIN a)

Array(seq) == [k \in 0..(Len(seq) - 1) |-> seq[k + 1]]

Zeros(k) == [i \in 0..(k - 1) |-> 0]

\* the elements lo..hi-1 of a, as a tuple (halving keeps the nesting low)
RECURSIVE TupleFrom(_, _, _)
TupleFrom(a, lo, hi) ==
    IF hi <= lo THEN << >>
    ELSE IF hi = lo + 1 THEN <<a[lo]>>
    ELSE LET mid == (lo + hi) \div 2
         IN TupleFrom(a, lo, mid) \o TupleFrom(a, mid, hi)

\* the array a with every element computed once
Stored(a) == Array(TupleFrom(a, 0, Size(a)))

Min2(a, b) == IF a < b THEN a ELSE b
Max2(a, b) == IF a > b THEN a ELSE b

\* a[lb:rb] for 0 <= lb and 0 <= rb
Slice(a, lb, rb) ==
    LET hi == Min2(rb, Size(a))
    IN [k \in 0..(hi - lb - 1) |-> a[lb + k]]

\* a Python index: a negative index counts from the end
PyIndexOk(k, n) == (0 - n) <= k /\ k < n
PyIndex(k, n) == IF k < 0 THEN k + n ELSE k

RECURSIVE FindFrom(_, _, _)
FindFrom(mask, lo, hi) ==
    IF hi <= lo THEN << >>
    ELSE IF hi = lo + 1 THEN (IF mask[lo] THEN <<lo>> ELSE << >>)
    ELSE LET mid == (lo + hi) \div 2
         IN FindFrom(mask, lo, mid) \o FindFrom(mask, mid, hi)

\* utils.find: the positions at which mask holds, ascending
find(mask) == Array(FindFrom(mask, 0, Size(mask)))

RECURSIVE ArgminFrom(_, _, _)
ArgminFrom(a, lo, hi) ==
    IF hi = lo + 1 THEN lo
    ELSE LET mid == (lo + hi) \div 2
             l == ArgminFrom(a, lo, mid)
             r == ArgminFrom(a, mid, hi)
         IN IF a[l] = NaN THEN l
            ELSE IF a[r] = NaN THEN r
            ELSE IF a[r] < a[l] THEN r
            ELSE l

\* np.argmin of a non-empty array: the first minimum, or the first NaN
argmin(a) == ArgminFrom(a, 0, Size(a))

RECURSIVE SumFrom(_, _, _)
SumFrom(a, lo, hi) ==
    IF hi <= lo THEN 0
    ELSE IF hi = lo + 1 THEN a[lo]
    ELSE LET mid == (lo + hi) \div 2
         IN FAdd(SumFrom(a, lo, mid), SumFrom(a, mid, hi))

\* np.sum
sum(a) == SumFrom(a, 0, Size(a))

\* ------------------------------------------------------------ constants

\* FRACTION_WORM_SMOOTH = 1.0/12.0
FRACTION_WORM_SMOOTH_DEN == 12
SMOOTHING_ORDER == 3
\* PERCENT_BACK_SEARCH = PERCENT_FORWARD_SEARCH = 0.3, in tenths
PERCENT_BACK_SEARCH == 3
PERCENT_FORWARD_SEARCH == 3
PERCENT_SEARCH_DEN == 10
\* END_S1_WALK_PCT = 0.15, in hundredths
END_S1_WALK_PCT == 15
END_S1_WALK_PCT_DEN == 100
\* the length of the preallocated p1_I and p2_I of h__getPartnersViaWalk
WALK_BUFFER == 200

\* ------------------------------------------------------------ smoothing

\* utils.round_to_odd(num / den): the nearest odd integer
round_to_odd(num, den) == 2 * Floor(num, 2 * den) + 1

\* scipy.signal.savgol_filter(v, w, SMOOTHING_ORDER) raises ValueError when
\* the polynomial order is not below the window or the window exceeds v
SgolayRaises(k, w) == SMOOTHING_ORDER >= w \/ w > k

D4(v, k) == v[k] - 4 * v[k + 1] + 6 * v[k + 2] - 4 * v[k + 3] + v[k + 4]

\* savgol_filter(v, 5, 3), mode 'interp': each value minus its component
\* along the fourth difference of its window, the cubic fit of 5 points;
\* the first and last two values are taken from the fit of the end window.
\* Sides in the model have fewer than 72 points, so 5 is the only window
\* the filter accepts.
sgolay(v, w) ==
    LET k == Size(v)
    IN Stored([i \in DOMAIN v |->
          IF i = 0 THEN v[i] - D4(v, 0) \div 70
          ELSE IF i = 1 THEN v[i] + (4 * D4(v, 0)) \div 70
          ELSE IF i = k - 2 THEN v[i] + (4 * D4(v, k - 5)) \div 70
          ELSE IF i = k - 1 THEN v[i] - D4(v, k - 5) \div 70
          ELSE v[i] - (6 * D4(v, i - 2)) \div 70])

\* s.shape[1]
NPoints(s) == Size(s[0])

filter_width(s) == round_to_odd(NPoints(s), FRACTION_WORM_SMOOTH_DEN)

\* s[0, :] = sgolay(s[0, :], w, ORDER); s[1, :] = sgolay(s[1, :], w, ORDER)
Smoothed(s) ==
    Stored([r \in 0..1 |-> sgolay(s[r], filter_width(s))])

\* ------------------------------------------------------------ distances

\* d_across, squared
d_across_of(s1, s2) ==
    [i \in 0..(NPoints(s1) - 1) |-> [j \in 0..(NPoints(s2) - 1) |->
        (s1[0][i] - s2[0][j]) * (s1[0][i] - s2[0][j])
      + (s1[1][i] - s2[1][j]) * (s1[1][i] - s2[1][j])]]

\* dx_across / d_across (r = 0) and dy_across / d_across (r = 1): no guard,
\* so a side1 point that coincides with a side2 point gives 0/0 = NaN
unit_across_of(s1, s2, r) ==
    [i \in 0..(NPoints(s1) - 1) |-> [j \in 0..(NPoints(s2) - 1) |->
        FDiv((s1[r][i] - s2[r][j]) * VecUnit, ISqrt(d_across_of(s1, s2)[i][j]))]]

\* ------------------------------------------------------------ bounds

\* np.linspace(0, 1, n1)[i] is i / (n1 - 1), and 0 when n1 = 1
PctNum(i, n1) == IF n1 = 1 THEN 0 ELSE i
PctDen(n1) == IF n1 = 1 THEN 1 ELSE n1 - 1

\* as h__getBounds, without left_I[left_I < 0] = 0 and
\* right_I[right_I >= n2] = n2 - 1
GetBoundsNotClipped(n1, n2, p_left, p_right) ==
    [left_I  |-> [i \in 0..(n1 - 1) |->
                    Floor((PERCENT_SEARCH_DEN * PctNum(i, n1) - p_left * PctDen(n1)) * n2,
                          PERCENT_SEARCH_DEN * PctDen(n1))],
     right_I |-> [i \in 0..(n1 - 1) |->
                    Ceil((PERCENT_SEARCH_DEN * PctNum(i, n1) + p_right * PctDen(n1)) * n2,
                         PERCENT_SEARCH_DEN * PctDen(n1))]]

h__getBounds(n1, n2, p_left, p_right) ==
    LET left_raw(i) ==
            Floor((PERCENT_SEARCH_DEN * PctNum(i, n1) - p_left * PctDen(n1)) * n2,
                  PERCENT_SEARCH_DEN * PctDen(n1))
        right_raw(i) ==
            Ceil((PERCENT_SEARCH_DEN * PctNum(i, n1) + p_right * PctDen(n1)) * n2,
                 PERCENT_SEARCH_DEN * PctDen(n1))
    IN [left_I  |-> Stored([i \in 0..(n1 - 1) |->
                        IF left_raw(i) < 0 THEN 0 ELSE left_raw(i)]),
        right_I |-> Stored([i \in 0..(n1 - 1) |->
                        IF right_raw(i) >= n2 THEN n2 - 1 ELSE right_raw(i)])]

\* ------------------------------------------------------------ normals

\* twice np.gradient of a row: the central difference, one-sided at the ends
Gradient2(v, i) ==
    LET k == Size(v)
    IN IF k < 2 THEN 0
       ELSE IF i = 0 THEN 2 * (v[1] - v[0])
       ELSE IF i = k - 1 THEN 2 * (v[k - 1] - v[k - 2])
       ELSE v[i + 1] - v[i - 1]

\* utils.compute_normal_vectors(s1): the unit tangent turned a quarter turn
compute_normal_vectors(s, r) ==
    Stored([i \in 0..(NPoints(s) - 1) |->
        LET tx == Gradient2(s[0], i)
            ty == Gradient2(s[1], i)
            len == ISqrt(tx * tx + ty * ty)
        IN IF r = 0 THEN FDiv((0 - ty) * VecUnit, len)
                    ELSE FDiv(tx * VecUnit, len)])

\* ------------------------------------------------------------ projection

\* possible = (dp[1:-2] < dp[2:-1]) & (dp[1:-2] < dp[0:-3])
possible_of(dp) ==
    [p \in 0..(Size(dp) - 4) |->
        FLt(dp[p + 1], dp[p + 2]) /\ FLt(dp[p + 1], dp[p])]

\* as dp_I_of, with the first position of the window where the code takes
\* np.argmin(dp)
DpIWithoutArgmin(dp, Ip, d_across) ==
    IF Size(Ip) = 1 THEN Ip[0] + 1
    ELSE IF Size(Ip) > 1
         THEN Ip[argmin([t \in DOMAIN Ip |-> d_across[Ip[t]]])] + 1
         ELSE 0

\* dp_I: the one local minimum, or of several the one at the position where
\* d_across of the window is least, or else the least dp
dp_I_of(dp, Ip, d_across) ==
    IF Size(Ip) = 1 THEN Ip[0] + 1
    ELSE IF Size(Ip) > 1
         THEN Ip[argmin([t \in DOMAIN Ip |-> d_across[Ip[t]]])] + 1
         ELSE argmin(dp)

\* return (dp[dp_I], I, sign_used)
ProjectionAt(dp, dp_I, left_I, sign_used) ==
    [err |-> "none", dp_value |-> dp[dp_I], I |-> left_I + dp_I,
     sign_used |-> sign_used]

\* the part of h__getProjectionIndex after dp has its sign; np.argmin of an
\* empty dp raises ValueError
ProjectionOfSigned(dp, left_I, d_across, sign_used) ==
    IF Size(dp) = 0
    THEN [err |-> "ValueError", dp_value |-> 0, I |-> 0, sign_used |-> sign_used]
    ELSE ProjectionAt(dp, dp_I_of(dp, find(possible_of(dp)), d_across),
                      left_I, sign_used)

\* dp = -1 * dp, when flip
signed_dp(dp0, flip) ==
    Stored([k \in DOMAIN dp0 |-> IF flip THEN FNeg(dp0[k]) ELSE dp0[k]])

\* if flip: dp = -1 * dp; sign_used = 1, else sign_used = -1
ProjectionWithSign(dp0, flip, left_I, d_across) ==
    ProjectionOfSigned(signed_dp(dp0, flip),
                       left_I, d_across, IF flip THEN 1 ELSE 0 - 1)

\* sign_use 0: flip when sum(dp) > 0; sign_use 1: flip; sign_use -1: keep
flip_of(dp0, sign_use) ==
    (sign_use = 0 /\ FGt(sum(dp0), 0)) \/ sign_use = 1

ProjectionOfDots(dp0, left_I, d_across, sign_use) ==
    ProjectionWithSign(dp0, flip_of(dp0, sign_use), left_I, d_across)

\* dp = dx_across_worm*vc_dx_ortho + dy_across_worm*vc_dy_ortho
dp_of(vc_dx_ortho, vc_dy_ortho, dx_across_worm, dy_across_worm) ==
    Stored([k \in DOMAIN dx_across_worm |->
               FAdd(FMul(dx_across_worm[k], vc_dx_ortho),
                    FMul(dy_across_worm[k], vc_dy_ortho))])

h__getProjectionIndex(vc_dx_ortho, vc_dy_ortho, dx_across_worm, dy_across_worm, left_I, d_across, sign_use) ==
    ProjectionOfDots(dp_of(vc_dx_ortho, vc_dy_ortho, dx_across_worm, dy_across_worm),
                     left_I, d_across, sign_use)

\* ------------------------------------------------------------ matches

\* the arrays h__getMatches reads, as one value
MatchInput(norm_x, norm_y, dx_across, dy_across, d_across, left_I, right_I) ==
    [norm_x |-> norm_x, norm_y |-> norm_y, dx_across |-> dx_across,
     dy_across |-> dy_across, d_across |-> d_across,
     left_I |-> left_I, right_I |-> right_I]

\* the call of h__getProjectionIndex for side1 point I
ProjectionOfPoint(g, I, sign_use) ==
    h__getProjectionIndex(g.norm_x[I], g.norm_y[I],
                          Slice(g.dx_across[I], g.left_I[I], g.right_I[I]),
                          Slice(g.dy_across[I], g.left_I[I], g.right_I[I]),
                          g.left_I[I],
                          Slice(g.d_across[I], g.left_I[I], g.right_I[I]),
                          sign_use)

\* the dp that call computes, before its sign is set
DotsOfPoint(g, I) ==
    dp_of(g.norm_x[I], g.norm_y[I],
          Slice(g.dx_across[I], g.left_I[I], g.right_I[I]),
          Slice(g.dy_across[I], g.left_I[I], g.right_I[I]))

NoProjection == [err |-> "none", dp_value |-> 0, I |-> 0, sign_used |-> 0]

\* the first loop: for I in range(1, n_s1 - 1), with sign_use 0
FirstProjections(g, n_s1) ==
    Stored([I \in 0..(n_s1 - 1) |->
        IF 1 <= I /\ I < n_s1 - 1 THEN ProjectionOfPoint(g, I, 0)
        ELSE NoProjection])

\* the second loop: the points whose sign is not the majority's, again
SecondProjections(g, n_s1, first, all_signs_used, all_same, sign_use) ==
    Stored([I \in 0..(n_s1 - 1) |->
        IF ~all_same /\ 1 <= I /\ I < n_s1 - 1 /\ all_signs_used[I] # sign_use
        THEN ProjectionOfPoint(g, I, sign_use)
        ELSE first[I]])

\* match_I as h__getMatches returns it: match_I[0] = 0 and
\* match_I[-1] = s2.shape[1]
MatchesFound(first, second, n_s1, n_s2) ==
    IF \E I \in 1..(n_s1 - 2) : first[I].err # "none" \/ second[I].err # "none"
    THEN [err |-> "ValueError", match_I |-> << >>]
    ELSE [err |-> "none",
          match_I |-> Stored([I \in 0..(n_s1 - 1) |->
                         IF I = n_s1 - 1 THEN n_s2
                         ELSE IF I = 0 THEN 0
                         ELSE second[I].I])]

\* np.all(all_signs_used[1:-1] == all_signs_used[1])
signs_all_same(all_signs_used, n_s1) ==
    \A I \in 1..(n_s1 - 2) : all_signs_used[I] = all_signs_used[1]

\* as sign_use_of, with the two signs exchanged
SignUseOfMinority(all_signs_used) ==
    IF sum(all_signs_used) > 0 THEN 0 - 1 ELSE 1

\* sign_use = 1 if np.sum(all_signs_used) > 0, and -1 otherwise
sign_use_of(all_signs_used) ==
    IF sum(all_signs_used) > 0 THEN 1 ELSE 0 - 1

\* if not np.all(all_signs_used[1:-1] == all_signs_used[1]): the points whose
\* sign is not sign_use are matched again
MatchesOfSigns(g, n_s1, n_s2, first, all_signs_used) ==
    MatchesFound(first,
                 SecondProjections(g, n_s1, first, all_signs_used,
                     signs_all_same(all_signs_used, n_s1),
                     sign_use_of(all_signs_used)),
                 n_s1, n_s2)

MatchesOfFirst(g, n_s1, n_s2, first) ==
    MatchesOfSigns(g, n_s1, n_s2, first,
                   Stored([I \in 0..(n_s1 - 1) |-> first[I].sign_used]))

\* all_signs_used[1] raises IndexError when side1 has one point
h__getMatches(s1, s2, norm_x, norm_y, dx_across, dy_across, d_across, left_I, right_I) ==
    IF NPoints(s1) < 2 THEN [err |-> "IndexError", match_I |-> << >>]
    ELSE MatchesOfFirst(
             MatchInput(norm_x, norm_y, dx_across, dy_across, d_across,
                        left_I, right_I),
             NPoints(s1), NPoints(s2),
             FirstProjections(
                 MatchInput(norm_x, norm_y, dx_across, dy_across, d_across,
                            left_I, right_I),
                 NPoints(s1)))

\* ------------------------------------------------------------ walking

\* p1_I and p2_I are np.zeros(WALK_BUFFER): here the entries written so far,
\* every other entry being 0.  cur_p_I is the position last written.
BufferAt(p, k) ==
    LET kk == PyIndex(k, WALK_BUFFER)
    IN IF kk < Len(p) THEN p[kk + 1] ELSE 0

\* p[:cur_p_I]: all but the last entry written; with cur_p_I = -1 (nothing
\* written) it is p[:-1], the first WALK_BUFFER - 1 zeros
BufferTrim(p) ==
    IF Len(p) = 0 THEN Zeros(WALK_BUFFER - 1)
    ELSE Array(SubSeq(p, 1, Len(p) - 1))

WalkStart(s1, s2) ==
    [c1 |-> s1, c2 |-> s2, p1_I |-> << >>, p2_I |-> << >>, err |-> "none"]

WalkRunning(w, e1, e2) == w.err = "none" /\ w.c1 # e1 /\ w.c2 # e2

AdvanceBoth(w, next1, next2) ==
    [w EXCEPT !.p1_I = Append(@, next1), !.p2_I = Append(@, next2),
              !.c1 = next1, !.c2 = next2]

\* as AdvanceSide1, writing the side1 index the cursor leaves
AdvanceSide1Stale(w, next1) ==
    [w EXCEPT !.p1_I = Append(@, w.c1), !.p2_I = Append(@, w.c2), !.c1 = next1]

AdvanceSide1(w, next1) ==
    [w EXCEPT !.p1_I = Append(@, next1), !.p2_I = Append(@, w.c2), !.c1 = next1]

AdvanceSide2(w, next2) ==
    [w EXCEPT !.p1_I = Append(@, w.c1), !.p2_I = Append(@, next2), !.c2 = next2]

\* if cur_p_I == 1: prev_width = 0
\* else: prev_width = d[p1_I[cur_p_I-1], p2_I[cur_p_I-1]]
prev_width_of(w, d, n1, n2) ==
    IF Len(w.p1_I) = 1 THEN 0
    ELSE d[PyIndex(BufferAt(w.p1_I, Len(w.p1_I) - 1), n1)]
          [PyIndex(BufferAt(w.p2_I, Len(w.p1_I) - 1), n2)]

\* one pass of the while loop of h__getPartnersViaWalk
WalkStep(w, s1, e1, d, xy1, xy2) ==
    LET n1 == NPoints(xy1)
        n2 == NPoints(xy2)
        cur_p_I == Len(w.p1_I)
        next1 == IF e1 < s1 THEN w.c1 - 1 ELSE w.c1 + 1
        next2 == IF e1 < s1 THEN w.c2 - 1 ELSE w.c2 + 1
        a1 == PyIndex(w.c1, n1)
        a2 == PyIndex(w.c2, n2)
        b1 == PyIndex(next1, n1)
        b2 == PyIndex(next2, n2)
        v_n1c1 == [r \in 0..1 |-> xy1[r][b1] - xy1[r][a1]]
        v_n2c2 == [r \in 0..1 |-> xy2[r][b2] - xy2[r][a2]]
        d_n1n2 == d[b1][b2]
        d_n1c2 == d[b1][a2]
        d_n2c1 == d[a1][b2]
        prev_width == prev_width_of(w, d, n1, n2)
    IN IF ~PyIndexOk(next1, n1) THEN [w EXCEPT !.err = "pdb"]
       ELSE IF ~PyIndexOk(next2, n2) THEN [w EXCEPT !.err = "IndexError"]
       ELSE IF cur_p_I >= WALK_BUFFER THEN [w EXCEPT !.err = "IndexError"]
       ELSE IF d_n1c2 = d_n2c1 \/ (d_n1n2 <= d_n1c2 /\ d_n1n2 <= d_n2c1)
            THEN AdvanceBoth(w, next1, next2)
       ELSE IF \E r \in 0..1 : v_n1c1[r] * v_n2c2[r] > 0
            THEN IF d_n1c2 < d_n2c1 THEN AdvanceSide1(w, next1)
                                    ELSE AdvanceSide2(w, next2)
       ELSE IF d_n1c2 > prev_width /\ d_n2c1 > prev_width
            THEN AdvanceBoth(w, next1, next2)
       ELSE IF d_n1c2 < d_n2c1 THEN AdvanceSide1(w, next1)
       ELSE AdvanceSide2(w, next2)

RECURSIVE WalkLoop(_, _, _, _, _, _, _)
WalkLoop(w, s1, e1, e2, d, xy1, xy2) ==
    IF WalkRunning(w, e1, e2)
    THEN WalkLoop(WalkStep(w, s1, e1, d, xy1, xy2), s1, e1, e2, d, xy1, xy2)
    ELSE w

\* p1_I = p1_I[:cur_p_I]; p2_I = p2_I[:cur_p_I]
WalkResult(w) ==
    [err |-> w.err, p1_I |-> BufferTrim(w.p1_I), p2_I |-> BufferTrim(w.p2_I)]

h__getPartnersViaWalk(s1, e1, s2, e2, d, xy1, xy2) ==
    WalkResult(WalkLoop(WalkStart(s1, s2), s1, e1, e2, d, xy1, xy2))

\* a[idx] = vals for index arrays: a repeated index keeps the last value
AssignAt(a, idx, vals) ==
    Stored([i \in DOMAIN a |->
        LET T == {t \in DOMAIN idx : PyIndex(idx[t], Size(a)) = i}
        IN IF T = {} THEN a[i]
           ELSE vals[CHOOSE t \in T : \A u \in T : u <= t]])

\* mask[idx] = True
MarkAt(mask, idx) ==
    Stored([i \in DOMAIN mask |->
        mask[i] \/ \E t \in DOMAIN idx : PyIndex(idx[t], Size(mask)) = i])

\* as KeepMiddleAndEnds, without keep_mask[0] = True; keep_mask[-1] = True
KeepMiddleOnly(keep_mask, n_s1, end_s1_walk_I, end_s1_walk_backwards) ==
    [i \in 0..(n_s1 - 1) |->
        \/ keep_mask[i]
        \/ (end_s1_walk_I + 1 <= i /\ i < end_s1_walk_backwards)]

\* keep_mask[end_s1_walk_I+1:end_s1_walk_backwards] = True;
\* keep_mask[0] = True; keep_mask[-1] = True
KeepMiddleAndEnds(keep_mask, n_s1, end_s1_walk_I, end_s1_walk_backwards) ==
    [i \in 0..(n_s1 - 1) |->
        \/ keep_mask[i]
        \/ (end_s1_walk_I + 1 <= i /\ i < end_s1_walk_backwards)
        \/ i = 0
        \/ i = n_s1 - 1]

\* match_I1[0] = 0; match_I1[-1] = n_s2 - 1
ForceEnds(match_I1, n_s1, n_s2) ==
    Stored([i \in 0..(n_s1 - 1) |->
        IF i = n_s1 - 1 THEN n_s2 - 1
        ELSE IF i = 0 THEN 0
        ELSE match_I1[i]])

\* as KeptPairs, with the second kept side1 index replaced by the first
KeptPairsRepeated(I_1, match_I1) ==
    [err |-> "none",
     I_1 |-> [t \in DOMAIN I_1 |-> IF t = 1 THEN I_1[0] ELSE I_1[t]],
     I_2 |-> Stored([t \in DOMAIN I_1 |-> match_I1[I_1[t]]])]

\* I_1 = utils.find(keep_mask); I_2 = match_I1[keep_mask]
KeptPairs(I_1, match_I1) ==
    [err |-> "none", I_1 |-> I_1,
     I_2 |-> Stored([t \in DOMAIN I_1 |-> match_I1[I_1[t]]])]

\* the part of h__updateEndsByWalking after the two walks
EndsOfWalks(head, tail, match_I1, n_s1, n_s2, end_s1_walk_I) ==
    IF head.err # "none" THEN [err |-> head.err, I_1 |-> << >>, I_2 |-> << >>]
    ELSE IF tail.err # "none" THEN [err |-> tail.err, I_1 |-> << >>, I_2 |-> << >>]
    ELSE KeptPairs(
             find(KeepMiddleAndEnds(
                      MarkAt(MarkAt([i \in 0..(n_s1 - 1) |-> FALSE], head.p1_I),
                             tail.p1_I),
                      n_s1, end_s1_walk_I, n_s1 - end_s1_walk_I + 1)),
             ForceEnds(AssignAt(AssignAt(match_I1, head.p1_I, head.p2_I),
                                tail.p1_I, tail.p2_I),
                       n_s1, n_s2))

\* the walk from the head, to end_s1_walk_I and end_s2_walk_I = 2 * it, and
\* the walk from the tail, to n_s1 - end_s1_walk_I + 1 and
\* n_s2 - end_s2_walk_I + 1
EndsWalked(d_across, match_I1, s1, s2, end_s1_walk_I) ==
    EndsOfWalks(
        h__getPartnersViaWalk(0, end_s1_walk_I, 0, 2 * end_s1_walk_I,
                              d_across, s1, s2),
        h__getPartnersViaWalk(NPoints(s1) - 1, NPoints(s1) - end_s1_walk_I + 1,
                              NPoints(s2) - 1, NPoints(s2) - 2 * end_s1_walk_I + 1,
                              d_across, s1, s2),
        match_I1, NPoints(s1), NPoints(s2), end_s1_walk_I)

\* end_s1_walk_I = np.ceil(n_s1 * END_S1_WALK_PCT)
h__updateEndsByWalking(d_across, match_I1, s1, s2, pct_num) ==
    EndsWalked(d_across, match_I1, s1, s2,
               Ceil(NPoints(s1) * pct_num, END_S1_WALK_PCT_DEN))

\* ------------------------------------------------------------ one frame

None == << >>
Some(a) == <<a>>
IsNone(v) == v = << >>
Value(v) == v[1]

\* is_good = np.hstack((True, (I_2[1:-1] <= I_2[2:]) & (I_2[1:-1] >= I_2[:-2]), True))
is_good_of(I_2) ==
    LET m == Size(I_2)
    IN Stored([t \in 0..(Max2(m - 2, 0) + 1) |->
          IF t = 0 \/ t = Max2(m - 2, 0) + 1 THEN TRUE
          ELSE I_2[t] <= I_2[t + 1] /\ I_2[t] >= I_2[t - 1]])

\* a[mask] for a boolean mask as long as a
Masked(a, mask) ==
    LET kept == find(mask)
    IN Stored([t \in DOMAIN kept |-> a[kept[t]]])

NoResult(err, s1, s2) ==
    [err |-> err, s1 |-> s1, s2 |-> s2, I_1 |-> << >>, I_2 |-> << >>,
     widths |-> << >>, skeleton |-> << >>]

\* as FrameOutput, with a width for every side1 point instead of every pair
FrameOutputAllWidths(s1, s2, d_across, I_1, I_2) ==
    [err |-> "none", s1 |-> s1, s2 |-> Some(s2), I_1 |-> I_1, I_2 |-> I_2,
     widths |-> Stored([i \in DOMAIN s1[0] |->
                   d_across[i][Min2(i, NPoints(s2) - 1)]]),
     skeleton |-> Stored([r \in 0..1 |-> Stored([t \in DOMAIN I_1 |->
                      s1[r][I_1[t]] + s2[r][I_2[t]]])])]

\* as FrameOutput, with the side1 point of each pair as the skeleton point
FrameOutputOnSide1(s1, s2, d_across, I_1, I_2) ==
    [err |-> "none", s1 |-> s1, s2 |-> Some(s2), I_1 |-> I_1, I_2 |-> I_2,
     widths |-> Stored([t \in DOMAIN I_1 |-> d_across[I_1[t]][I_2[t]]]),
     skeleton |-> Stored([r \in 0..1 |-> Stored([t \in DOMAIN I_1 |->
                      s1[r][I_1[t]] + s1[r][I_1[t]]])])]

\* widths = d_across[I_1, I_2] (kept squared) and
\* skeleton = 0.5 * (s1[:, I_1] + s2[:, I_2]) (kept doubled)
FrameOutput(s1, s2, d_across, I_1, I_2) ==
    [err |-> "none", s1 |-> s1, s2 |-> Some(s2), I_1 |-> I_1, I_2 |-> I_2,
     widths |-> Stored([t \in DOMAIN I_1 |-> d_across[I_1[t]][I_2[t]]]),
     skeleton |-> Stored([r \in 0..1 |-> Stored([t \in DOMAIN I_1 |->
                      s1[r][I_1[t]] + s2[r][I_2[t]]])])]

\* as FrameFiltered, without I_1 = I_1[is_good]; I_2 = I_2[is_good]
FrameUnfiltered(s1, s2, d_across, ends, is_good) ==
    FrameOutput(s1, s2, d_across, ends.I_1, ends.I_2)

\* I_1 = I_1[is_good]; I_2 = I_2[is_good]
FrameFiltered(s1, s2, d_across, ends, is_good) ==
    IF Size(is_good) # Size(ends.I_2)
    THEN NoResult("IndexError", s1, Some(s2))
    ELSE FrameOutput(s1, s2, d_across,
                     Masked(ends.I_1, is_good), Masked(ends.I_2, is_good))

FrameWalked(s1, s2, d_across, ends) ==
    IF ends.err # "none" THEN NoResult(ends.err, s1, Some(s2))
    ELSE FrameFiltered(s1, s2, d_across, ends, is_good_of(ends.I_2))

FrameMatched(s1, s2, d_across, matches) ==
    IF matches.err # "none" THEN NoResult(matches.err, s1, Some(s2))
    ELSE FrameWalked(s1, s2, d_across,
                     h__updateEndsByWalking(d_across, matches.match_I, s1, s2,
                                            END_S1_WALK_PCT))

FrameBounded(s1, s2, d_across, bounds) ==
    FrameMatched(s1, s2, d_across,
                 h__getMatches(s1, s2,
                               compute_normal_vectors(s1, 0),
                               compute_normal_vectors(s1, 1),
                               unit_across_of(s1, s2, 0),
                               unit_across_of(s1, s2, 1),
                               d_across, bounds.left_I, bounds.right_I))

\* the frame from the distances on, both sides smoothed
FrameSmoothed(s1, s2) ==
    FrameBounded(s1, s2, d_across_of(s1, s2),
                 h__getBounds(NPoints(s1), NPoints(s2),
                              PERCENT_BACK_SEARCH, PERCENT_FORWARD_SEARCH))

\* s2 is used without a test for None: s2.shape raises AttributeError, after
\* s1 was smoothed
FrameAfterSide1(s1, s2) ==
    IF IsNone(s2) THEN NoResult("AttributeError", s1, s2)
    ELSE IF SgolayRaises(NPoints(Value(s2)), filter_width(Value(s2)))
    THEN NoResult("ValueError", s1, s2)
    ELSE FrameSmoothed(s1, Smoothed(Value(s2)))

\* the body of the frame loop of compute_skeleton_and_widths for a frame
\* whose s1 is not None; s2 is optional.  The result carries the two sides
\* as the body leaves them: it smooths the caller's arrays in place.
frame_body(s1, s2) ==
    IF SgolayRaises(NPoints(s1), filter_width(s1))
    THEN NoResult("ValueError", s1, s2)
    ELSE FrameAfterSide1(Smoothed(s1), s2)

\* ------------------------------------------------------------ resampling

\* config.N_POINTS_NORMALIZED
N_POINTS_NORMALIZED == 49

RECURSIVE GCD(_, _)
GCD(a, b) == IF b = 0 THEN a ELSE GCD(b, a % b)

\* the fraction num / den (den > 0) in lowest terms: the interpolated values
\* are kept exact
Reduced(num, den, g) == <<num \div g, den \div g>>
Rat(num, den) == Reduced(num, den, GCD(Abs(num), den))

\* np.linalg.norm(np.diff(skeleton, axis=0), axis=1); the array is kept as the
\* caller has it before np.rollaxis, (2, k) for a curve of k points, so that
\* the difference runs along its second axis and the norm over its first.
\* The lengths are whole for the curves of the model, whose segments lie
\* along an axis or along a multiple of (3, 4).
chain_code_lengths(skeleton) ==
    [m \in 0..(NPoints(skeleton) - 2) |->
        ISqrt(sum([r \in DOMAIN skeleton |->
                      (skeleton[r][m + 1] - skeleton[r][m])
                          * (skeleton[r][m + 1] - skeleton[r][m])]))]

\* np.cumsum
cumsum(a) == Stored([m \in DOMAIN a |-> SumFrom(a, 0, m + 1)])

\* chain_code_lengths_cum_sum without its np.cumsum
ChainCodeLengthsNotSummed(skeleton) ==
    IF NPoints(skeleton) = 0 THEN chain_code_lengths(skeleton)
    ELSE Array(<<0>> \o TupleFrom(chain_code_lengths(skeleton),
                                   0, NPoints(skeleton) - 1))

\* the empty set gets no leading 0
chain_code_lengths_cum_sum(skeleton) ==
    IF NPoints(skeleton) = 0 THEN cumsum(chain_code_lengths(skeleton))
    ELSE cumsum(Array(<<0>> \o TupleFrom(chain_code_lengths(skeleton),
                                          0, NPoints(skeleton) - 1)))

\* np.linspace(first, last, N)[t], times N - 1
new_length(old_lengths, t) ==
    (N_POINTS_NORMALIZED - 1) * old_lengths[0]
        + t * (old_lengths[Size(old_lengths) - 1] - old_lengths[0])

\* np.interp at x / (N - 1): the value at the last old position at or before
\* x, moved along the segment to the next old position
interp_at(x, xp, fp, j) ==
    IF j = Size(xp) - 1 THEN Rat(fp[j], 1)
    ELSE Rat(fp[j] * (N_POINTS_NORMALIZED - 1) * (xp[j + 1] - xp[j])
                 + (x - (N_POINTS_NORMALIZED - 1) * xp[j]) * (fp[j + 1] - fp[j]),
             (N_POINTS_NORMALIZED - 1) * (xp[j + 1] - xp[j]))

interp(x, xp, fp) ==
    interp_at(x, xp, fp,
              CHOOSE j \in DOMAIN xp :
                  /\ (N_POINTS_NORMALIZED - 1) * xp[j] <= x
                  /\ \A i \in DOMAIN xp :
                         i > j => (N_POINTS_NORMALIZED - 1) * xp[i] > x)

\* a numpy array: its shape and its elements, the rows of a 2-d array
ndarray(shape, data) == [shape |-> shape, data |-> data]

\* the 1-d array of the elements of a
Vector(a) == ndarray(<<Size(a)>>, a)

NormalizeRaises(err) == [err |-> err, shape |-> << >>, value |-> << >>]

\* np.interp(new_lengths, old_lengths, fp) for fp as long as old_lengths
interp_all(old_lengths, fp) ==
    Stored([t \in 0..(N_POINTS_NORMALIZED - 1) |->
               interp(new_length(old_lengths, t), old_lengths, fp)])

\* np.rollaxis(np.array([interp_x, interp_y]), axis=1): one row per position
interp_xy(old_lengths, fp_x, fp_y) ==
    Stored([t \in 0..(N_POINTS_NORMALIZED - 1) |->
               Array(<<interp(new_length(old_lengths, t), old_lengths, fp_x),
                       interp(new_length(old_lengths, t), old_lengths, fp_y)>>)])

\* old_lengths[0] raises IndexError on an empty old_lengths, a row that
\* prop_to_normalize does not have raises IndexError, and np.interp raises
\* ValueError when the values are not as many as the positions
normalize_parameter(prop_to_normalize, old_lengths) ==
    IF Size(old_lengths) = 0 THEN NormalizeRaises("IndexError")
    ELSE IF Len(prop_to_normalize.shape) = 2
    THEN IF prop_to_normalize.shape[1] = 0 THEN NormalizeRaises("IndexError")
         ELSE IF prop_to_normalize.shape[2] # Size(old_lengths)
         THEN NormalizeRaises("ValueError")
         ELSE IF prop_to_normalize.shape[1] = 1 THEN NormalizeRaises("IndexError")
         ELSE [err |-> "none",
               shape |-> <<N_POINTS_NORMALIZED, 2>>,
               value |-> interp_xy(old_lengths, prop_to_normalize.data[0],
                                   prop_to_normalize.data[1])]
    ELSE IF prop_to_normalize.shape[1] # Size(old_lengths)
    THEN NormalizeRaises("ValueError")
    ELSE [err |-> "none",
          shape |-> <<N_POINTS_NORMALIZED>>,
          value |-> interp_all(old_lengths, prop_to_normalize.data)]

\* np.shape of a list of frames: frames that are all arrays of one length
\* make a 2-d array; a list with None in it or with arrays of several
\* lengths makes a 1-d array of objects
np_shape(frames) ==
    IF Size(frames) = 0 THEN <<0>>
    ELSE IF /\ \A f \in DOMAIN frames : ~IsNone(frames[f])
            /\ \A f \in DOMAIN frames : Size(Value(frames[f])) = Size(Value(frames[0]))
    THEN <<Size(frames), Size(Value(frames[0]))>>
    ELSE <<Size(frames)>>

\* a column of np.full(norm_data_shape, np.NaN)
NaNColumn == [t \in 0..(N_POINTS_NORMALIZED - 1) |-> NaN]

\* ------------------------------------------------------------ input frames

MaxFrames == 2
MaxPts == 50

\* the fewest points of a side that savgol_filter accepts: a window of 5
MinPts == 4 * FRACTION_WORM_SMOOTH_DEN + 1

\* a straight side of k points one pixel apart, at height y (pixels)
Straight(k, y) ==
    [r \in 0..1 |-> [i \in 0..(k - 1) |->
        IF r = 0 THEN PixelUnit * i ELSE PixelUnit * y]]

\* the same with point b moved by h pixels across the side
Bumped(k, y, b, h) ==
    [r \in 0..1 |-> [i \in 0..(k - 1) |->
        IF r = 0 THEN PixelUnit * i
        ELSE IF i = b THEN PixelUnit * (y + h) ELSE PixelUnit * y]]

Frame(s1, s2) == [s1 |-> s1, s2 |-> s2]

\* frames with full-length sides: side1 with one point out of line, side2
\* straight, of the same or another length, at some width
LongFrames ==
    { Frame(Some(Bumped(n1, 0, b, h)), Some(Straight(n2, w))) :
        n1 \in MinPts..MaxPts, n2 \in MinPts..MaxPts,
        b \in {3, 27}, h \in {0 - 2, 0, 2}, w \in {0, 8} }

\* frames a batch mixes: a missing frame, a frame with one side missing,
\* sides of one point, and full-length frames
MixedFrames ==
    { Frame(None, None),
      Frame(None, Some(Straight(MinPts, 5))),
      Frame(Some(Straight(MinPts, 0)), None),
      Frame(Some(Straight(1, 0)), Some(Straight(1, 5))),
      Frame(Some(Straight(MinPts, 0)), Some(Straight(MinPts, 5))),
      Frame(Some(Bumped(MinPts, 0, 27, 0 - 2)), Some(Straight(MinPts, 8))) }

\* a side whose every per-th point lies h pixels to one side of the height y
\* and every other point h pixels to the other side
ZigZag(k, y, h, per) ==
    [r \in 0..1 |-> [i \in 0..(k - 1) |->
        IF r = 0 THEN PixelUnit * i
        ELSE IF i % per = 0 THEN PixelUnit * (y + h) ELSE PixelUnit * (y - h)]]

\* frames with two rugged sides
RuggedFrames ==
    { Frame(Some(ZigZag(MinPts, 0, 3, 4)), Some(ZigZag(MinPts, 8, 2, 2))),
      Frame(Some(ZigZag(MinPts, 0, 4, 4)), Some(ZigZag(MinPts, 8, 1, 2))) }

RECURSIVE Batches(_)
Batches(k) ==
    IF k = 0 THEN { << >> }
    ELSE LET shorter == Batches(k - 1)
         IN shorter \cup { Append(b, f) : b \in { c \in shorter : Len(c) = k - 1 },
                                          f \in MixedFrames }

InputBatches ==
    Batches(MaxFrames) \cup { <<f>> : f \in LongFrames \cup RuggedFrames }

\* inputs of the resampling: per frame a curve of k points along the x axis,
\* unevenly spaced, and a value at each point; or None
MaxNormFrames == 2
MaxNormPts == 3

Path(k, step) ==
    [r \in 0..1 |-> [i \in 0..(k - 1) |-> IF r = 0 THEN step * i * i ELSE 0]]

Ramp(k, a) == [i \in 0..(k - 1) |-> a * i + 1]

NormFrames ==
    { [prop |-> None, xy |-> None] } \cup
    { [prop |-> Some(Ramp(k, a)), xy |-> Some(Path(k, step))] :
        k \in 0..MaxNormPts, step \in 1..2, a \in {0, 3} }

RECURSIVE NormBatches(_)
NormBatches(k) ==
    IF k = 0 THEN { << >> }
    ELSE { << >> } \cup { <<f>> \o b : f \in NormFrames, b \in NormBatches(k - 1) }

\* ------------------------------------------------------------ state

VARIABLES
    given_ventral,      \* h_ventral_contour as the caller passed it
    given_dorsal,       \* h_dorsal_contour as the caller passed it
    h_ventral_contour,  \* the caller's list of side1 arrays (or None)
    h_dorsal_contour,   \* the caller's list of side2 arrays (or None)
    frame_index,        \* the frame the loop is at
    h_skeleton,         \* the output list of skeletons (or None)
    h_widths,           \* the output list of widths (or None)
    I_1,                \* the side1 indices of the pairs emitted for the last frame
    I_2,                \* their side2 indices
    outcome,            \* "running", "returned" or the exception raised
    prop_to_normalize,  \* normalize_all_frames: the list of per-frame values
    xy_data,            \* the list of per-frame curves (or None)
    iFrame,             \* the frame its loop is at
    norm_data,          \* its array: the shape, and the column of each frame
    norm_outcome,       \* "running", "returned" or the exception raised
    walk_sides,         \* h__getPartnersViaWalk: the two sides xy1, xy2, as lines
    walk_call,          \* its arguments s1, e1, s2, e2
    walk,               \* its cursors c1, c2 and the pairs written to p1_I, p2_I
    walk_pairs,         \* the pair of sequences it returns
    walk_outcome,       \* "running", "returned" or the exception raised
    given_value,        \* normalize_parameter on one frame: the values as first given
    given_xy,           \* the curve as first given
    resampled,          \* what normalize_parameter has returned, call after call
    resample_outcome,   \* "running", "returned" or the exception raised
    match_sides,        \* h__getMatches: the sides s1 and s2 it is called with
    match_bounds,       \* left_I and right_I of h__getBounds
    matching,           \* its loop index I, match_I and all_signs_used
    match_outcome       \* "running", "returned" or the exception raised

skeleton_vars == <<given_ventral, given_dorsal, h_ventral_contour, h_dorsal_contour,
                   frame_index, h_skeleton, h_widths, I_1, I_2, outcome>>

norm_vars == <<prop_to_normalize, xy_data, iFrame, norm_data, norm_outcome>>

walk_vars == <<walk_sides, walk_call, walk, walk_pairs, walk_outcome>>

resample_vars == <<given_value, given_xy, resampled, resample_outcome>>

match_vars == <<match_sides, match_bounds, matching, match_outcome>>

vars == <<skeleton_vars, norm_vars, walk_vars, resample_vars, match_vars>>

\* h__getMatches is not running on sides of its own
MatchIdle ==
    /\ match_sides = << >>
    /\ match_bounds = << >>
    /\ matching = << >>
    /\ match_outcome = "idle"

\* normalize_parameter is not running on a frame of its own
ResampleIdle ==
    /\ given_value = << >>
    /\ given_xy = << >>
    /\ resampled = << >>
    /\ resample_outcome = "idle"

\* h__getPartnersViaWalk is not running
WalkIdle ==
    /\ walk_sides = << >>
    /\ walk_call = << >>
    /\ walk = << >>
    /\ walk_pairs = << >>
    /\ walk_outcome = "idle"

\* normalize_all_frames is not running
NormIdle ==
    /\ prop_to_normalize = << >>
    /\ xy_data = << >>
    /\ iFrame = 0
    /\ norm_data = [shape |-> << >>, column |-> << >>]
    /\ norm_outcome = "idle"

\* compute_skeleton_and_widths is not running
SkeletonIdle ==
    /\ given_ventral = << >>
    /\ given_dorsal = << >>
    /\ h_ventral_contour = << >>
    /\ h_dorsal_contour = << >>
    /\ frame_index = 0
    /\ h_skeleton = << >>
    /\ h_widths = << >>
    /\ I_1 = << >>
    /\ I_2 = << >>
    /\ outcome = "idle"

num_frames == Size(h_ventral_contour)

Init ==
    \E batch \in InputBatches :
        /\ NormIdle
        /\ WalkIdle
        /\ ResampleIdle
        /\ MatchIdle
        /\ given_ventral = Array([t \in 1..Len(batch) |-> batch[t].s1])
        /\ given_dorsal = Array([t \in 1..Len(batch) |-> batch[t].s2])
        /\ h_ventral_contour = given_ventral
        /\ h_dorsal_contour = given_dorsal
        /\ frame_index = 0
        /\ h_skeleton = [f \in 0..(Len(batch) - 1) |-> None]
        /\ h_widths = [f \in 0..(Len(batch) - 1) |-> None]
        /\ I_1 = << >>
        /\ I_2 = << >>
        /\ outcome = "running"

InLoop == outcome = "running" /\ frame_index < num_frames

\* if s1 is None: continue
SkipFrame ==
    /\ InLoop
    /\ IsNone(h_ventral_contour[frame_index])
    /\ frame_index' = frame_index + 1
    /\ UNCHANGED <<given_ventral, given_dorsal, h_ventral_contour,
                   h_dorsal_contour, h_skeleton, h_widths, I_1, I_2, outcome>>

FrameResult ==
    frame_body(Value(h_ventral_contour[frame_index]), h_dorsal_contour[frame_index])

\* the end of a pass: h_widths[iFrame] and h_skeleton[iFrame] are set
StoreFrame(r) ==
    /\ r.err = "none"
    /\ h_ventral_contour' = [h_ventral_contour EXCEPT ![frame_index] = Some(r.s1)]
    /\ h_dorsal_contour' = [h_dorsal_contour EXCEPT ![frame_index] = r.s2]
    /\ h_widths' = [h_widths EXCEPT ![frame_index] = Some(r.widths)]
    /\ h_skeleton' = [h_skeleton EXCEPT ![frame_index] = Some(r.skeleton)]
    /\ I_1' = r.I_1
    /\ I_2' = r.I_2

\* a statement of the pass raises: what it wrote to the sides stays
AbandonFrame(r) ==
    /\ r.err # "none"
    /\ h_ventral_contour' = [h_ventral_contour EXCEPT ![frame_index] = Some(r.s1)]
    /\ h_dorsal_contour' = [h_dorsal_contour EXCEPT ![frame_index] = r.s2]
    /\ outcome' = r.err

\* one pass of the frame loop that runs to its end
ComputeFrame ==
    /\ InLoop
    /\ ~IsNone(h_ventral_contour[frame_index])
    /\ StoreFrame(FrameResult)
    /\ frame_index' = frame_index + 1
    /\ UNCHANGED <<given_ventral, given_dorsal, outcome>>

\* one pass of the frame loop in which a statement raises: the exception
\* leaves compute_skeleton_and_widths, which returns nothing
RaiseInFrame ==
    /\ InLoop
    /\ ~IsNone(h_ventral_contour[frame_index])
    /\ AbandonFrame(FrameResult)
    /\ UNCHANGED <<given_ventral, given_dorsal, frame_index, h_skeleton,
                   h_widths, I_1, I_2>>

\* return (h_widths, h_skeleton)
Return ==
    /\ outcome = "running"
    /\ frame_index = num_frames
    /\ outcome' = "returned"
    /\ UNCHANGED <<given_ventral, given_dorsal, h_ventral_contour,
                   h_dorsal_contour, frame_index, h_skeleton, h_widths, I_1, I_2>>

Next ==
    \/ SkipFrame /\ UNCHANGED <<norm_vars, walk_vars, resample_vars, match_vars>>
    \/ ComputeFrame /\ UNCHANGED <<norm_vars, walk_vars, resample_vars, match_vars>>
    \/ RaiseInFrame /\ UNCHANGED <<norm_vars, walk_vars, resample_vars, match_vars>>
    \/ Return /\ UNCHANGED <<norm_vars, walk_vars, resample_vars, match_vars>>

\* compute_skeleton_and_widths on a batch of frames
Spec == Init /\ [][Next]_vars

\* ------------------------------------------------------------ normalize_all_frames

\* norm_data = np.full([N] + list(np.shape(prop_to_normalize)), np.NaN)
InitNorm ==
    \E batch \in NormBatches(MaxNormFrames) :
        /\ SkeletonIdle
        /\ WalkIdle
        /\ ResampleIdle
        /\ MatchIdle
        /\ prop_to_normalize = Array([t \in 1..Len(batch) |-> batch[t].prop])
        /\ xy_data = Array([t \in 1..Len(batch) |-> batch[t].xy])
        /\ iFrame = 0
        /\ norm_data = [shape |-> <<N_POINTS_NORMALIZED>> \o np_shape(prop_to_normalize),
                        column |-> [f \in 0..(Len(batch) - 1) |-> NaNColumn]]
        /\ norm_outcome = "running"

InNormLoop == norm_outcome = "running" /\ iFrame < Size(xy_data)

\* cur_xy is None: the frame's column keeps its NaN
NormSkipFrame ==
    /\ InNormLoop
    /\ IsNone(xy_data[iFrame])
    /\ iFrame' = iFrame + 1
    /\ UNCHANGED <<prop_to_normalize, xy_data, norm_data, norm_outcome>>

NormResult ==
    normalize_parameter(Vector(Value(prop_to_normalize[iFrame])),
                        chain_code_lengths_cum_sum(Value(xy_data[iFrame])))

\* norm_data[..., iFrame] = <N values> fits when norm_data is (N, n_frames)
ColumnFits == Len(norm_data.shape) = 2

\* norm_data[..., iFrame] = normalize_parameter(cur_frame_value, cc)
StoreColumn(r) ==
    /\ r.err = "none"
    /\ ColumnFits
    /\ norm_data' = [norm_data EXCEPT !.column[iFrame] = r.value]
    /\ iFrame' = iFrame + 1
    /\ UNCHANGED <<prop_to_normalize, xy_data, norm_outcome>>

\* normalize_parameter raises, or the N values do not fit norm_data[..., iFrame],
\* which is (N, n_frames) when norm_data is (N, n_frames, k): ValueError
AbandonColumn(r) ==
    /\ r.err # "none" \/ ~ColumnFits
    /\ norm_outcome' = IF r.err # "none" THEN r.err ELSE "ValueError"
    /\ UNCHANGED <<prop_to_normalize, xy_data, iFrame, norm_data>>

NormFrame ==
    /\ InNormLoop
    /\ ~IsNone(xy_data[iFrame])
    /\ StoreColumn(NormResult)

NormRaise ==
    /\ InNormLoop
    /\ ~IsNone(xy_data[iFrame])
    /\ AbandonColumn(NormResult)

\* return norm_data
NormReturn ==
    /\ norm_outcome = "running"
    /\ iFrame = Size(xy_data)
    /\ norm_outcome' = "returned"
    /\ UNCHANGED <<prop_to_normalize, xy_data, iFrame, norm_data>>

NextNorm ==
    \/ NormSkipFrame /\ UNCHANGED <<skeleton_vars, walk_vars, resample_vars, match_vars>>
    \/ NormFrame /\ UNCHANGED <<skeleton_vars, walk_vars, resample_vars, match_vars>>
    \/ NormRaise /\ UNCHANGED <<skeleton_vars, walk_vars, resample_vars, match_vars>>
    \/ NormReturn /\ UNCHANGED <<skeleton_vars, walk_vars, resample_vars, match_vars>>

\* normalize_all_frames on a batch of frames
SpecNorm == InitNorm /\ [][NextNorm]_vars

\* ------------------------------------------------------------ h__getPartnersViaWalk

LongSide == 161
HugeSide == 667

\* a straight side of k evenly spaced points: point i is
\* (x0 + i * dx, y0 + i * dy).  The smoothing filter leaves such a side as
\* it is, so it reaches the walk as given.
Line(k, x0, y0, dx, dy) ==
    [r \in 0..1 |-> [i \in 0..(k - 1) |->
        IF r = 0 THEN x0 + i * dx ELSE y0 + i * dy]]

LineOf(p) == Line(p[1], p[2], p[3], p[4], p[5])

\* the arguments h__updateEndsByWalking gives its two calls of the walk
WalkArgs(n_s1, n_s2, end_s1_walk_I, tail) ==
    IF tail THEN [s1 |-> n_s1 - 1, e1 |-> n_s1 - end_s1_walk_I + 1,
                  s2 |-> n_s2 - 1, e2 |-> n_s2 - 2 * end_s1_walk_I + 1]
    ELSE [s1 |-> 0, e1 |-> end_s1_walk_I, s2 |-> 0, e2 |-> 2 * end_s1_walk_I]

WalkInput(l1, l2, tail) ==
    [xy1 |-> l1, xy2 |-> l2,
     call |-> WalkArgs(l1[1], l2[1],
                       Ceil(l1[1] * END_S1_WALK_PCT, END_S1_WALK_PCT_DEN), tail)]

\* two sides running along each other at some width, of the same or of
\* different lengths and spacings, side2 starting level with side1 or ahead; a side of few points along a long side;
\* two long sides; side2 running across the direction of side1
WalkInputs ==
    { WalkInput(<<n1, 0, 0, a1, 0>>, <<n2, x2, w, a2, 0>>, tail) :
        n1 \in {MinPts, MaxPts}, n2 \in {MinPts, MaxPts},
        a1 \in 1..2, a2 \in 1..2, x2 \in {0, 5}, w \in {3, 8}, tail \in BOOLEAN }
    \cup { WalkInput(<<LongSide, 0, 0, 2, 0>>, <<MinPts, 0, 8, 1, 0>>, tail) :
             tail \in BOOLEAN }
    \cup { WalkInput(<<HugeSide, 0, 0, 2, 0>>, <<HugeSide, 0, 8, 1, 0>>, FALSE) }
    \cup { WalkInput(<<MinPts, 0, 0, 1, 0>>, <<MinPts, 0 - 3, 4, 0, 0 - 1>>, tail) :
             tail \in BOOLEAN }

InitWalk ==
    \E in \in WalkInputs :
        /\ SkeletonIdle
        /\ NormIdle
        /\ ResampleIdle
        /\ MatchIdle
        /\ walk_sides = [xy1 |-> in.xy1, xy2 |-> in.xy2]
        /\ walk_call = in.call
        /\ walk = WalkStart(in.call.s1, in.call.s2)
        /\ walk_pairs = << >>
        /\ walk_outcome = "running"

xy1_of_walk == LineOf(walk_sides.xy1)
xy2_of_walk == LineOf(walk_sides.xy2)

\* while c1 != e1 and c2 != e2
WalkActive ==
    /\ walk_outcome = "running"
    /\ WalkRunning(walk, walk_call.e1, walk_call.e2)

\* the state of the walk after the pass of the loop it is at
WalkStepped ==
    WalkStep(walk, walk_call.s1, walk_call.e1,
             d_across_of(xy1_of_walk, xy2_of_walk), xy1_of_walk, xy2_of_walk)

\* one pass of the while loop that runs to its end
WalkIterate ==
    /\ WalkActive
    /\ WalkStepped.err = "none"
    /\ walk' = WalkStepped
    /\ UNCHANGED <<walk_sides, walk_call, walk_pairs, walk_outcome>>

\* one pass of the while loop in which an index is out of range
WalkRaise ==
    /\ WalkActive
    /\ WalkStepped.err # "none"
    /\ walk' = WalkStepped
    /\ walk_outcome' = WalkStepped.err
    /\ UNCHANGED <<walk_sides, walk_call, walk_pairs>>

\* return (p1_I[:cur_p_I], p2_I[:cur_p_I])
WalkReturn ==
    /\ walk_outcome = "running"
    /\ ~WalkRunning(walk, walk_call.e1, walk_call.e2)
    /\ walk_pairs' = WalkResult(walk)
    /\ walk_outcome' = "returned"
    /\ UNCHANGED <<walk_sides, walk_call, walk>>

NextWalk ==
    \/ WalkIterate /\ UNCHANGED <<skeleton_vars, norm_vars, resample_vars, match_vars>>
    \/ WalkRaise /\ UNCHANGED <<skeleton_vars, norm_vars, resample_vars, match_vars>>
    \/ WalkReturn /\ UNCHANGED <<skeleton_vars, norm_vars, resample_vars, match_vars>>

\* one endpoint walk of h__updateEndsByWalking
SpecWalk == InitWalk /\ [][NextWalk]_vars

\* ------------------------------------------------------------ normalize_parameter

MaxResamplePasses == 2
MaxCurvePts == 10

\* a curve whose first two points are one point
Stutter(k) ==
    [r \in 0..1 |-> [i \in 0..(k - 1) |-> IF r = 0 /\ i > 0 THEN i - 1 ELSE 0]]

\* a value per point that does not grow evenly from point to point
Hump(k) == [i \in 0..(k - 1) |-> (i * i) % 5]

\* straight lines of evenly spaced points, of few points and of N points,
\* along an axis or along (3, 4); curves of unevenly spaced points; curves
\* that repeat their first point
Curves ==
    { Line(k, x0, 0, d[1], d[2]) :
        k \in (0..3) \cup {MaxCurvePts, N_POINTS_NORMALIZED},
        x0 \in {0, 5},
        d \in {<<1, 0>>, <<0, 2>>, <<3, 4>>, <<24, 0>>} }
    \cup { Path(k, step) : k \in 2..3, step \in 1..2 }
    \cup { Stutter(k) : k \in 2..3 }

\* a curve resampled along itself, as normalize_all_frames_xy has it, or a
\* value per point resampled along the curve
ResampleInputs ==
    { [value |-> ndarray(<<2, NPoints(c)>>, c), xy |-> c] : c \in Curves }
    \cup { [value |-> Vector(Ramp(NPoints(c), 3)), xy |-> c] : c \in Curves }
    \cup { [value |-> Vector(Hump(NPoints(c))), xy |-> c] : c \in Curves }

InitResample ==
    \E in \in ResampleInputs :
        /\ SkeletonIdle
        /\ NormIdle
        /\ WalkIdle
        /\ MatchIdle
        /\ given_value = in.value
        /\ given_xy = in.xy
        /\ resampled = << >>
        /\ resample_outcome = "running"

IsWhole(v) == v[2] = 1

\* every value of the array a is a whole number
AllWhole(a) ==
    IF Len(a.shape) = 2
    THEN \A t \in DOMAIN a.data : \A c \in DOMAIN a.data[t] : IsWhole(a.data[t][c])
    ELSE \A t \in DOMAIN a.data : IsWhole(a.data[t])

\* the array a of whole values, as an array of integers
WholeArray(a) ==
    IF Len(a.shape) = 2
    THEN ndarray(a.shape, [t \in DOMAIN a.data |->
                              [c \in DOMAIN a.data[t] |-> a.data[t][c][1]]])
    ELSE ndarray(a.shape, [t \in DOMAIN a.data |-> a.data[t][1]])

LastResampled == resampled[Len(resampled)]

\* cur_frame_value: the values as given, then what the last call returned
cur_frame_value ==
    IF Len(resampled) = 0 THEN given_value ELSE WholeArray(LastResampled)

\* cur_xy: the curve as given; a curve resampled along itself is its own
\* cur_xy, also when it is resampled again
cur_xy ==
    IF Len(resampled) > 0 /\ Len(given_value.shape) = 2
    THEN cur_frame_value.data
    ELSE given_xy

\* the array returned is given back only when its values are whole, and a
\* value per point only along a curve of as many points
CanResampleAgain ==
    /\ AllWhole(LastResampled)
    /\ Len(given_value.shape) = 1 => NPoints(given_xy) = N_POINTS_NORMALIZED

CanResample ==
    /\ resample_outcome = "running"
    /\ Len(resampled) < MaxResamplePasses
    /\ Len(resampled) > 0 => CanResampleAgain

\* cc = chain_code_lengths_cum_sum(np.rollaxis(cur_xy, axis=1));
\* normalize_parameter(cur_frame_value, cc)
ResampleResult ==
    normalize_parameter(cur_frame_value, chain_code_lengths_cum_sum(cur_xy))

StoreResampled(r) ==
    /\ r.err = "none"
    /\ resampled' = Append(resampled, ndarray(r.shape, r.value))
    /\ UNCHANGED <<given_value, given_xy, resample_outcome>>

AbandonResample(r) ==
    /\ r.err # "none"
    /\ resample_outcome' = r.err
    /\ UNCHANGED <<given_value, given_xy, resampled>>

ResampleFrame == CanResample /\ StoreResampled(ResampleResult)

ResampleRaise == CanResample /\ AbandonResample(ResampleResult)

ResampleReturn ==
    /\ resample_outcome = "running"
    /\ ~CanResample
    /\ resample_outcome' = "returned"
    /\ UNCHANGED <<given_value, given_xy, resampled>>

NextResample ==
    \/ ResampleFrame /\ UNCHANGED <<skeleton_vars, norm_vars, walk_vars, match_vars>>
    \/ ResampleRaise /\ UNCHANGED <<skeleton_vars, norm_vars, walk_vars, match_vars>>
    \/ ResampleReturn /\ UNCHANGED <<skeleton_vars, norm_vars, walk_vars, match_vars>>

\* normalize_parameter on one frame, and again on what it returned
SpecResample == InitResample /\ [][NextResample]_vars

\* ------------------------------------------------------------ properties

\* frame f was given with both sides, or with a side absent
SideAbsent(f) == IsNone(given_ventral[f]) \/ IsNone(given_dorsal[f])

\* the pass of frame f ran to its end: its skeleton and widths are set
Emitted(f) == f \in DOMAIN h_skeleton /\ ~IsNone(h_skeleton[f])

SomeEmitted == \E f \in DOMAIN h_skeleton : Emitted(f)

\* the frame whose pairs I_1 and I_2 hold: the last one emitted
LastEmitted ==
    CHOOSE f \in DOMAIN h_skeleton :
        Emitted(f) /\ \A g \in DOMAIN h_skeleton : Emitted(g) => g <= f

Raised == outcome \notin {"idle", "running", "returned"}

\* C1: for every valid frame, the side2 indices of the emitted pairs never
\* decrease from one retained pair to the next (no two emitted pairs cross).
C1_NoCrossing ==
    \A t \in DOMAIN I_2 : (t + 1) \in DOMAIN I_2 => I_2[t] <= I_2[t + 1]

\* the first and last emitted pairs are (0, 0) and (last, last)
EndPairsAre(n1, n2) ==
    /\ Size(I_1) >= 1
    /\ Size(I_2) = Size(I_1)
    /\ I_1[0] = 0
    /\ I_2[0] = 0
    /\ I_1[Size(I_1) - 1] = n1 - 1
    /\ I_2[Size(I_2) - 1] = n2 - 1

\* the first and last points of skeleton (kept doubled) are the sums of the
\* first points and of the last points of s1 and s2
EndMidpointsOf(skeleton, s1, s2) ==
    \A r \in 0..1 :
        /\ skeleton[r][0] = s1[r][0] + s2[r][0]
        /\ skeleton[r][Size(skeleton[r]) - 1]
               = s1[r][NPoints(s1) - 1] + s2[r][NPoints(s2) - 1]

\* C2 (as amended): for every emitted frame the first pair is (0, 0) and the
\* last pair is (last, last), and the first and last skeleton points are the
\* midpoints of the end points of the two sides as smoothed.
C2_EndPairsForced ==
    /\ SomeEmitted =>
           EndPairsAre(NPoints(Value(h_ventral_contour[LastEmitted])),
                       NPoints(Value(h_dorsal_contour[LastEmitted])))
    /\ \A f \in DOMAIN h_skeleton :
           Emitted(f) => EndMidpointsOf(Value(h_skeleton[f]),
                                        Value(h_ventral_contour[f]),
                                        Value(h_dorsal_contour[f]))

\* C2 as stated: the first and last skeleton points are the midpoints of the
\* two given end pairs, the end points of the sides as the caller gave them.
C2_GivenEndMidpoints ==
    \A f \in DOMAIN h_skeleton :
        Emitted(f) => EndMidpointsOf(Value(h_skeleton[f]),
                                     Value(given_ventral[f]),
                                     Value(given_dorsal[f]))

\* a frame was emitted whose ordering repair dropped pairs and whose sides
\* the smoothing changed
C2_Witness ==
    /\ SomeEmitted
    /\ Size(I_1) >= 2
    /\ Size(I_1) < NPoints(Value(h_ventral_contour[LastEmitted]))
    /\ h_ventral_contour[LastEmitted] # given_ventral[LastEmitted]

\* C3: for every emitted frame the skeleton and the widths have the same
\* length, which is the number of pairs retained and is at least 2.
C3_SameLengthAtLeastTwo ==
    \A f \in DOMAIN h_skeleton :
        Emitted(f) =>
            /\ Size(Value(h_skeleton[f])[0]) = Size(Value(h_widths[f]))
            /\ Size(Value(h_skeleton[f])[1]) = Size(Value(h_widths[f]))
            /\ Size(Value(h_widths[f])) >= 2
            /\ f = LastEmitted =>
                   /\ Size(I_1) = Size(Value(h_widths[f]))
                   /\ Size(I_2) = Size(Value(h_widths[f]))

\* a frame was emitted with more than 2 pairs, fewer than side1 has points
C3_Witness ==
    /\ SomeEmitted
    /\ Size(Value(h_widths[LastEmitted])) > 2
    /\ Size(Value(h_widths[LastEmitted]))
           < NPoints(Value(h_ventral_contour[LastEmitted]))

\* C4: a frame whose side1 or side2 is absent raises no error and gets a
\* missing skeleton and missing widths, the other frames being processed;
\* the two output lists have one entry per frame.
C4_AbsentSideIsMissing ==
    /\ Raised => ~SideAbsent(frame_index)
    /\ \A f \in DOMAIN given_ventral :
           (f < frame_index /\ SideAbsent(f)) =>
               IsNone(h_skeleton[f]) /\ IsNone(h_widths[f])
    /\ Size(h_skeleton) = Size(given_ventral)
    /\ Size(h_widths) = Size(given_ventral)

\* frame f was given with both sides, one of them of fewer than 2 points
ShortSide(f) ==
    /\ ~SideAbsent(f)
    /\ \/ NPoints(Value(given_ventral[f])) < 2
       \/ NPoints(Value(given_dorsal[f])) < 2

\* C7: a frame in which a side has fewer than 2 points raises no error and
\* gets a missing result.
C7_ShortSideIsMissing ==
    /\ Raised => ~ShortSide(frame_index)
    /\ \A f \in DOMAIN given_ventral :
           (f < frame_index /\ ShortSide(f)) =>
               IsNone(h_skeleton[f]) /\ IsNone(h_widths[f])

\* what h__getMatches reads for the sides s1 and s2, both smoothed
MatchInputOf(s1, s2, bounds) ==
    MatchInput(compute_normal_vectors(s1, 0), compute_normal_vectors(s1, 1),
               unit_across_of(s1, s2, 0), unit_across_of(s1, s2, 1),
               d_across_of(s1, s2), bounds.left_I, bounds.right_I)

HasNaN(a) == \E k \in DOMAIN a : a[k] = NaN

\* the dp of some interior side1 point holds a NaN: the comparisons of
\* possible and np.argmin are then computed on an undefined value
NaNInSelection(g, n1) == \E I \in 1..(n1 - 2) : HasNaN(DotsOfPoint(g, I))

NaNReachesSelection(s1, s2) ==
    NaNInSelection(MatchInputOf(s1, s2,
                                h__getBounds(NPoints(s1), NPoints(s2),
                                             PERCENT_BACK_SEARCH,
                                             PERCENT_FORWARD_SEARCH)),
                   NPoints(s1))

\* C8: when a side1 point coincides with a side2 point, no undefined value
\* reaches the comparison and the argmin that select the matched side2 index.
C8_NoNaNInSelection ==
    SomeEmitted =>
        ~NaNReachesSelection(Value(h_ventral_contour[LastEmitted]),
                             Value(h_dorsal_contour[LastEmitted]))

\* what compute_skeleton_and_widths hands back for frame f: the slot of the
\* list it returns; nothing when it raised
SlotOf(f) ==
    IF outcome = "returned" THEN <<h_skeleton[f], h_widths[f]>>
    ELSE <<None, None>>

ResultAlone(r) ==
    IF r.err = "none" THEN <<Some(r.skeleton), Some(r.widths)>>
    ELSE <<None, None>>

\* what processing frame f by itself gives, from the sides as given
AloneOf(f) ==
    IF IsNone(given_ventral[f]) THEN <<None, None>>
    ELSE ResultAlone(frame_body(Value(given_ventral[f]), given_dorsal[f]))

\* C9: frames are independent: once the batch is over, every output slot
\* holds what processing its frame alone gives, whatever the other frames are.
C9_SlotsIndependent ==
    (Raised \/ outcome = "returned") =>
        \A f \in DOMAIN given_ventral : SlotOf(f) = AloneOf(f)

\* C10: compute_skeleton_and_widths leaves the caller's side1 and side2
\* arrays as they were given.
C10_InputsUnchanged ==
    /\ h_ventral_contour = given_ventral
    /\ h_dorsal_contour = given_dorsal

NormRaised == norm_outcome \notin {"idle", "running", "returned"}

\* C5: resampling a frame raises no error, whatever its number of points,
\* and its column holds exactly N values.
C5_ResampleYieldsN ==
    /\ norm_outcome # "IndexError"
    /\ \A f \in DOMAIN norm_data.column :
           Size(norm_data.column[f]) = N_POINTS_NORMALIZED

ColumnAlone(r) == IF r.err = "none" THEN r.value ELSE NaNColumn

\* the column of frame f resampled by itself; all NaN for a missing frame
ColumnOf(f) ==
    IF IsNone(xy_data[f]) THEN NaNColumn
    ELSE ColumnAlone(normalize_parameter(Vector(Value(prop_to_normalize[f])),
                         chain_code_lengths_cum_sum(Value(xy_data[f]))))

\* every frame of the batch is missing or has at least one point
NoEmptyFrame ==
    \A f \in DOMAIN xy_data :
        IsNone(xy_data[f]) \/ NPoints(Value(xy_data[f])) >= 1

\* C6, for the batches in which no frame fails by itself: normalize_all_frames
\* does not stop on a frame, and returns an array of N rows and one column
\* per frame: all NaN for a missing frame, the frame's own resampled values
\* otherwise.
C6_BatchIsRectangular ==
    NoEmptyFrame =>
        /\ ~NormRaised
        /\ norm_outcome = "returned" =>
               /\ norm_data.shape = <<N_POINTS_NORMALIZED, Size(xy_data)>>
               /\ \A f \in DOMAIN xy_data : norm_data.column[f] = ColumnOf(f)

\* ------------------------------------------------------------ the walk

\* the pairs the walk has written so far
WalkSteps == Len(walk.p1_I)

\* C11: a walk can record every pair it accepts: whenever the loop is to run
\* another pass, fewer pairs than the capacity of p1_I and p2_I (200) have
\* been written, whatever the number of points of the sides
C11_WalkFitsBuffer == WalkActive => WalkSteps < WALK_BUFFER

\* pair t of the walk (t = 0 is the pair the walk starts from, not written)
WalkPair(w, t) ==
    IF t = 0 THEN <<walk_call.s1, walk_call.s2>> ELSE <<w.p1_I[t], w.p2_I[t]>>

\* the cursor went from index a to index b: one index nearer to its end e
OneNearer(a, b, e) == Abs(e - b) = Abs(e - a) - 1

\* a pass of the loop: a cursor that moves goes one index nearer to its end,
\* at least one cursor moves, and the one pair written is where the cursors
\* are after the pass
PassAdvances ==
    /\ walk'.c1 # walk.c1 \/ walk'.c2 # walk.c2
    /\ walk'.c1 # walk.c1 => OneNearer(walk.c1, walk'.c1, walk_call.e1)
    /\ walk'.c2 # walk.c2 => OneNearer(walk.c2, walk'.c2, walk_call.e2)
    /\ walk'.p1_I = Append(walk.p1_I, walk'.c1)
    /\ walk'.p2_I = Append(walk.p2_I, walk'.c2)

\* C18: every pass of the walk that does not raise advances side1 only,
\* side2 only or both, each by one index toward its end index, never away
\* from it, and writes exactly one pair, the cursor positions after the pass
C18_ThreeTransitions ==
    [][(walk_outcome' = "running" /\ walk' # walk) => PassAdvances]_vars

\* a walk has returned after passes of all three kinds
C18_Witness ==
    /\ walk_outcome = "returned"
    /\ \E t \in 1..WalkSteps :
           /\ WalkPair(walk, t)[1] # WalkPair(walk, t - 1)[1]
           /\ WalkPair(walk, t)[2] = WalkPair(walk, t - 1)[2]
    /\ \E t \in 1..WalkSteps :
           /\ WalkPair(walk, t)[1] = WalkPair(walk, t - 1)[1]
           /\ WalkPair(walk, t)[2] # WalkPair(walk, t - 1)[2]
    /\ \E t \in 1..WalkSteps :
           /\ WalkPair(walk, t)[1] # WalkPair(walk, t - 1)[1]
           /\ WalkPair(walk, t)[2] # WalkPair(walk, t - 1)[2]

\* the index next to c on the way to the end e
Toward(c, e) == IF e < c THEN c - 1 ELSE c + 1

\* the width (squared) of the pair of side1 point i and side2 point j
WidthOf(i, j) ==
    d_across_of(xy1_of_walk, xy2_of_walk)
        [PyIndex(i, NPoints(xy1_of_walk))][PyIndex(j, NPoints(xy2_of_walk))]

\* the width of the pair accepted last: the pair written by the pass before,
\* or the pair the walk starts from
LastWidth == WidthOf(WalkPair(walk, WalkSteps)[1], WalkPair(walk, WalkSteps)[2])

\* the widths of the three advances open to the pass
WidthSide1 == WidthOf(Toward(walk.c1, walk_call.e1), walk.c2)
WidthSide2 == WidthOf(walk.c1, Toward(walk.c2, walk_call.e2))
WidthBoth == WidthOf(Toward(walk.c1, walk_call.e1), Toward(walk.c2, walk_call.e2))

\* the pass takes an advance that does not widen the pair when there is one,
\* and advances both sides when the two single advances are equally wide
PassKeepsWidth ==
    /\ (WidthSide1 <= LastWidth \/ WidthSide2 <= LastWidth \/ WidthBoth <= LastWidth)
           => WidthOf(walk'.c1, walk'.c2) <= LastWidth
    /\ WidthSide1 = WidthSide2 => (walk'.c1 # walk.c1 /\ walk'.c2 # walk.c2)

\* C19: at each pass of the walk the advance taken gives a pair no wider
\* than the pair accepted before whenever one of the three advances does,
\* and equal widths of the two single advances make both sides advance
C19_NoWiderWhenPossible ==
    [][(walk_outcome' = "running" /\ walk' # walk) => PassKeepsWidth]_vars

\* |e1 - s1| + |e2 - s2| - 1
WalkBound ==
    Abs(walk_call.e1 - walk_call.s1) + Abs(walk_call.e2 - walk_call.s2) - 1

\* C20: a walk of h__updateEndsByWalking ends by a cursor reaching its end
\* index, after at most |e1 - s1| + |e2 - s2| - 1 passes: it raises nothing
\* and, once it has returned, c1 = e1 or c2 = e2
C20_WalkReachesEnd ==
    walk_outcome # "idle" =>
        /\ walk_outcome \in {"running", "returned"}
        /\ WalkSteps <= WalkBound
        /\ walk_outcome = "returned" =>
               (walk.c1 = walk_call.e1 \/ walk.c2 = walk_call.e2)

\* ------------------------------------------------------------ emitted pairs

\* the sides of frame f as the call has left them
Side1(f) == Value(h_ventral_contour[f])
Side2(f) == Value(h_dorsal_contour[f])

\* the head walk of h__updateEndsByWalking for the sides s1, s2
HeadWalkOf(s1, s2, end_s1_walk_I) ==
    h__getPartnersViaWalk(0, end_s1_walk_I, 0, 2 * end_s1_walk_I,
                          d_across_of(s1, s2), s1, s2)

\* the walk paired some side1 index with several side2 indices
PairsOneWithSeveral(p) ==
    \E t, u \in DOMAIN p.p1_I : t # u /\ p.p1_I[t] = p.p1_I[u] /\ p.p2_I[t] # p.p2_I[u]

\* C12: the skeleton of every frame has at most as many points as its
\* side1, and the side1 indices of the pairs emitted for a frame are indices
\* of side1 and strictly increasing, so no side1 index is in two pairs
C12_Side1IndicesIncrease ==
    /\ \A f \in DOMAIN h_skeleton :
           Emitted(f) => Size(Value(h_skeleton[f])[0]) <= NPoints(Side1(f))
    /\ SomeEmitted =>
           /\ \A t \in DOMAIN I_1 : 0 <= I_1[t] /\ I_1[t] < NPoints(Side1(LastEmitted))
           /\ \A t \in DOMAIN I_1 : (t + 1) \in DOMAIN I_1 => I_1[t] < I_1[t + 1]

\* a frame was emitted whose head walk paired a side1 index with several
\* side2 indices
C12_Witness ==
    /\ SomeEmitted
    /\ Size(I_1) > 2
    /\ PairsOneWithSeveral(
           HeadWalkOf(Side1(LastEmitted), Side2(LastEmitted),
                      Ceil(NPoints(Side1(LastEmitted)) * END_S1_WALK_PCT,
                           END_S1_WALK_PCT_DEN)))

\* the squared distance of point i of s1 and point j of s2
SquaredDistance(s1, i, s2, j) ==
    (s1[0][i] - s2[0][j]) * (s1[0][i] - s2[0][j])
        + (s1[1][i] - s2[1][j]) * (s1[1][i] - s2[1][j])

\* skeleton and widths are those of the pairs (I_1[t], I_2[t]) of s1 and s2
MidpointsAndWidths(skeleton, widths, s1, s2) ==
    /\ DOMAIN widths = DOMAIN I_1
    /\ DOMAIN skeleton[0] = DOMAIN I_1
    /\ \A t \in DOMAIN I_1 :
           /\ skeleton[0][t] = s1[0][I_1[t]] + s2[0][I_2[t]]
           /\ skeleton[1][t] = s1[1][I_1[t]] + s2[1][I_2[t]]
           /\ widths[t] = SquaredDistance(s1, I_1[t], s2, I_2[t])
           /\ widths[t] >= 0

\* C13: for every emitted pair (i, j) of a frame the skeleton point is the
\* midpoint of side1[i] and side2[j] (here: twice the point is their sum) and
\* the width is their distance (here: squared), which is not negative
C13_MidpointAndDistance ==
    SomeEmitted =>
        MidpointsAndWidths(Value(h_skeleton[LastEmitted]), Value(h_widths[LastEmitted]),
                           Side1(LastEmitted), Side2(LastEmitted))

\* a frame was emitted with a pair of different indices and positive width
C13_Witness ==
    /\ SomeEmitted
    /\ \E t \in DOMAIN I_1 :
           I_1[t] # I_2[t] /\ Value(h_widths[LastEmitted])[t] > 0

\* ------------------------------------------------------------ ordering repair

\* the pairs h__updateEndsByWalking returns for the smoothed sides s1, s2:
\* the pairs the ordering repair starts from
PairsOfMatches(s1, s2, d_across, matches) ==
    IF matches.err # "none" THEN [err |-> matches.err, I_1 |-> << >>, I_2 |-> << >>]
    ELSE h__updateEndsByWalking(d_across, matches.match_I, s1, s2, END_S1_WALK_PCT)

PairsOfBounds(s1, s2, d_across, bounds) ==
    PairsOfMatches(s1, s2, d_across,
                   h__getMatches(s1, s2,
                                 compute_normal_vectors(s1, 0),
                                 compute_normal_vectors(s1, 1),
                                 unit_across_of(s1, s2, 0),
                                 unit_across_of(s1, s2, 1),
                                 d_across, bounds.left_I, bounds.right_I))

PairsBeforeRepair(s1, s2) ==
    PairsOfBounds(s1, s2, d_across_of(s1, s2),
                  h__getBounds(NPoints(s1), NPoints(s2),
                               PERCENT_BACK_SEARCH, PERCENT_FORWARD_SEARCH))

\* there are interior pairs and the check marks none of them good
NonePasses(is_good) ==
    /\ Size(is_good) > 2
    /\ \A t \in 1..(Size(is_good) - 2) : ~is_good[t]

NoInteriorPairPasses(pairs) ==
    pairs.err = "none" /\ NonePasses(is_good_of(pairs.I_2))

\* the frame the loop is at has both sides, the filter accepts them, and no
\* interior pair of it passes the ordering-repair check
AtFrameWithoutGoodPair ==
    /\ InLoop
    /\ ~IsNone(h_ventral_contour[frame_index])
    /\ ~IsNone(h_dorsal_contour[frame_index])
    /\ NPoints(Side1(frame_index)) >= MinPts
    /\ NPoints(Side2(frame_index)) >= MinPts
    /\ NoInteriorPairPasses(PairsBeforeRepair(Smoothed(Side1(frame_index)),
                                              Smoothed(Side2(frame_index))))

\* the pass emits the two endpoint pairs, a 2-point skeleton and 2 widths
EmitsEndpointPairs ==
    /\ outcome' = "running"
    /\ frame_index' = frame_index + 1
    /\ I_1' = Array(<<0, NPoints(Side1(frame_index)) - 1>>)
    /\ I_2' = Array(<<0, NPoints(Side2(frame_index)) - 1>>)
    /\ NPoints(Value(h_skeleton'[frame_index])) = 2
    /\ Size(Value(h_widths'[frame_index])) = 2

\* C17: when no interior pair of a frame passes the ordering-repair check,
\* the pass of that frame raises nothing and emits exactly the two endpoint
\* pairs, a skeleton of 2 points and 2 widths
C17_EndpointsOnly == [][AtFrameWithoutGoodPair => EmitsEndpointPairs]_vars

\* a frame was emitted of which no interior pair passed the check
C17_Witness ==
    /\ SomeEmitted
    /\ Size(I_1) = 2
    /\ NoInteriorPairPasses(PairsBeforeRepair(Side1(LastEmitted), Side2(LastEmitted)))

\* ------------------------------------------------------------ resampling one frame

\* the cumulative lengths of the curve as given
CumLengths == chain_code_lengths_cum_sum(given_xy)

\* d is the distance from point m - 1 to point m of the curve xy
DistanceIs(xy, m, d) ==
    /\ d >= 0
    /\ d * d = (xy[0][m] - xy[0][m - 1]) * (xy[0][m] - xy[0][m - 1])
                 + (xy[1][m] - xy[1][m - 1]) * (xy[1][m] - xy[1][m - 1])

\* cc has one value per point of xy, starts at 0, never falls, and grows from
\* point to point by the distance between the two points
CumulativeLengthsOf(xy, cc) ==
    /\ Size(cc) = NPoints(xy)
    /\ cc[0] = 0
    /\ \A m \in 1..(NPoints(xy) - 1) :
           /\ cc[m] >= cc[m - 1]
           /\ DistanceIs(xy, m, cc[m] - cc[m - 1])
    /\ (NPoints(xy) = 3 /\ xy = Line(3, 0, 0, 1, 0)) => cc = Array(<<0, 1, 2>>)

\* C14: for a curve of k >= 1 points chain_code_lengths_cum_sum returns k
\* values, the first is 0, no value is less than the one before it, and each
\* value exceeds the one before it by the distance between the two points;
\* for the points (0, 0), (1, 0), (2, 0) it returns [0, 1, 2].
C14_CumulativeLengths ==
    (resample_outcome # "idle" /\ NPoints(given_xy) >= 1) =>
        CumulativeLengthsOf(given_xy, CumLengths)

\* the points (0, 0), (1, 0), (2, 0) have been resampled along their
\* cumulative lengths
C14_Witness ==
    /\ resample_outcome = "returned"
    /\ NPoints(given_xy) = 3
    /\ given_xy = Line(3, 0, 0, 1, 0)
    /\ Len(resampled) >= 1

\* the positions cc are evenly spaced
EvenlySpaced(cc) ==
    \A m \in 1..(Size(cc) - 1) : cc[m] - cc[m - 1] = cc[1] - cc[0]

\* the curve as given has N points, evenly spaced along it
AlreadyNormalized ==
    /\ NPoints(given_xy) = N_POINTS_NORMALIZED
    /\ EvenlySpaced(CumLengths)

\* the array r returned holds the values of the array a given, point by
\* point; a curve is given as a row of x and a row of y and returned as one
\* row per point, which counts as the same curve
SameValues(a, r) ==
    IF Len(a.shape) = 2
    THEN \A t \in 0..(N_POINTS_NORMALIZED - 1) : \A c \in 0..1 :
             r.data[t][c] = Rat(a.data[c][t], 1)
    ELSE \A t \in 0..(N_POINTS_NORMALIZED - 1) : r.data[t] = Rat(a.data[t], 1)

ResampledOnceIsSame ==
    (AlreadyNormalized /\ Len(resampled) >= 1) => SameValues(given_value, resampled[1])

ResampledTwiceIsSame == Len(resampled) >= 2 => resampled[2] = resampled[1]

PositionOf(cc, t) ==
    (N_POINTS_NORMALIZED - 1) * cc[0] + t * (cc[Size(cc) - 1] - cc[0])

\* the value v, a fraction, lies on the straight line from value f0 at
\* position x0 to value f1 at position x1, at position x
OnSegment(v, x, x0, x1, f0, f1) ==
    v[1] * (x1 - x0) = v[2] * (f0 * (x1 - x0) + (x - x0) * (f1 - f0))

\* the outputs out are the values fp, given at the positions cc, evaluated
\* at the N positions: the old value at an old position, the interpolation
\* of the two neighbouring old values between two old positions
EvaluatedAt(out, cc, fp) ==
    /\ Size(out) = N_POINTS_NORMALIZED
    /\ out[0] = Rat(fp[0], 1)
    /\ out[N_POINTS_NORMALIZED - 1] = Rat(fp[Size(fp) - 1], 1)
    /\ \A t \in DOMAIN out : \A m \in DOMAIN cc :
           /\ PositionOf(cc, t) = (N_POINTS_NORMALIZED - 1) * cc[m]
                  => out[t] = Rat(fp[m], 1)
           /\ (/\ m + 1 \in DOMAIN cc
               /\ (N_POINTS_NORMALIZED - 1) * cc[m] < PositionOf(cc, t)
               /\ PositionOf(cc, t) < (N_POINTS_NORMALIZED - 1) * cc[m + 1])
                  => OnSegment(out[t], PositionOf(cc, t),
                               (N_POINTS_NORMALIZED - 1) * cc[m],
                               (N_POINTS_NORMALIZED - 1) * cc[m + 1],
                               fp[m], fp[m + 1])

\* the outputs out run evenly from the first to the last of the values fp
ExactlyLinear(out, fp) ==
    \A t \in DOMAIN out :
        OnSegment(out[t], t, 0, N_POINTS_NORMALIZED - 1, fp[0], fp[Size(fp) - 1])

\* coordinate c of the curve r returned, position by position
CoordinateOf(r, c) == [t \in DOMAIN r.data |-> r.data[t][c]]

\* the array r is what the claim says of the array a and the positions cc
NormalizedAs(r, a, cc) ==
    IF Len(a.shape) = 2
    THEN /\ EvaluatedAt(CoordinateOf(r, 0), cc, a.data[0])
         /\ EvaluatedAt(CoordinateOf(r, 1), cc, a.data[1])
         /\ EvenlySpaced(cc) =>
                /\ ExactlyLinear(CoordinateOf(r, 0), a.data[0])
                /\ ExactlyLinear(CoordinateOf(r, 1), a.data[1])
    ELSE EvaluatedAt(r.data, cc, a.data)

\* C16: normalize_parameter returns the values at the N positions
\* L0 + k * (Llast - L0) / (N - 1): the old value where the position is an
\* old position, so that the first and the last output are the first and the
\* last value given, the interpolation of the two neighbouring old values
\* between old positions, x and y each by itself for a curve, and the exact
\* linear values for a straight line of evenly spaced points.
C16_EvaluatedAtEvenPositions ==
    (resample_outcome # "idle" /\ Len(resampled) >= 1) =>
        NormalizedAs(resampled[1], given_value, CumLengths)

\* the same for the curves on which no two points in a row are one point
StrictlyIncreasing(cc) == \A m \in 1..(Size(cc) - 1) : cc[m - 1] < cc[m]

NormalizedAsWhenIncreasing ==
    (resample_outcome # "idle" /\ Len(resampled) >= 1 /\ StrictlyIncreasing(CumLengths)) =>
        NormalizedAs(resampled[1], given_value, CumLengths)

\* ------------------------------------------------------------ the walk, continued

\* C21: the pairs a walk returns are the pairs it accepted, in the order
\* accepted: none is dropped, the last one included, and none is added.
C21_ReturnsAcceptedPairs ==
    walk_outcome = "returned" =>
        /\ walk_pairs.p1_I = Array(walk.p1_I)
        /\ walk_pairs.p2_I = Array(walk.p2_I)

\* k is an index of a side of n points, counted from its first point
InRange(k, n) == 0 <= k /\ k <= n - 1

\* next1, next2: one further from the start
WalkNext(c) == IF walk_call.e1 < walk_call.s1 THEN c - 1 ELSE c + 1

\* C22: the ends of a walk are indices of their sides, and every index a
\* walk reads, cursor or next, is an index of its side: 0..n1-1 on side1 and
\* 0..n2-1 on side2.
C22_IndicesInRange ==
    walk_outcome # "idle" =>
        /\ InRange(walk_call.e1, walk_sides.xy1[1])
        /\ InRange(walk_call.e2, walk_sides.xy2[1])
        /\ InRange(walk.c1, walk_sides.xy1[1])
        /\ InRange(walk.c2, walk_sides.xy2[1])
        /\ WalkActive =>
               /\ InRange(WalkNext(walk.c1), walk_sides.xy1[1])
               /\ InRange(WalkNext(walk.c2), walk_sides.xy2[1])

\* ceil(0.15 * n1) for the side1 of the walk
WalkedSteps ==
    Ceil(walk_sides.xy1[1] * END_S1_WALK_PCT, END_S1_WALK_PCT_DEN)

\* C23: a walk starts at index 0 of both sides or at the last index of both
\* sides, and from either end it ranges over ceil(0.15 * n1) steps of side1
\* and twice as many steps of side2.
C23_SameExtentAtBothEnds ==
    walk_outcome # "idle" =>
        /\ \/ walk_call.s1 = 0 /\ walk_call.s2 = 0
           \/ /\ walk_call.s1 = walk_sides.xy1[1] - 1
              /\ walk_call.s2 = walk_sides.xy2[1] - 1
        /\ Abs(walk_call.e1 - walk_call.s1) = WalkedSteps
        /\ Abs(walk_call.e2 - walk_call.s2) = 2 * WalkedSteps

\* the two sides run in similar directions: np.sum((v_n1c1 * v_n2c2) > 0)
SimilarDirections ==
    \/ walk_sides.xy1[4] * walk_sides.xy2[4] > 0
    \/ walk_sides.xy1[5] * walk_sides.xy2[5] > 0

\* the pass the walk is at compares the widths of its advances against the
\* previously accepted width
ComparesWidth ==
    /\ WalkActive
    /\ InRange(WalkNext(walk.c1), walk_sides.xy1[1])
    /\ InRange(WalkNext(walk.c2), walk_sides.xy2[1])
    /\ WidthSide1 # WidthSide2
    /\ ~(WidthBoth <= WidthSide1 /\ WidthBoth <= WidthSide2)
    /\ ~SimilarDirections

\* the width of the pair accepted at the pass before, 0 at the first pass
WidthAcceptedBefore ==
    IF WalkSteps = 0 THEN 0
    ELSE WidthOf(walk.p1_I[WalkSteps], walk.p2_I[WalkSteps])

\* prev_width of the pass the walk is at
PrevWidthOfPass ==
    prev_width_of(walk, d_across_of(xy1_of_walk, xy2_of_walk),
                  NPoints(xy1_of_walk), NPoints(xy2_of_walk))

\* C24: the previously accepted width a pass compares against is 0 at the
\* first pass of a walk and the width of the pair accepted at the pass before
\* at every later pass, in the head walk and in the tail walk.
C24_PreviousWidth == ComparesWidth => PrevWidthOfPass = WidthAcceptedBefore

\* the same for the passes after the second
PreviousWidthFromThirdPass ==
    (ComparesWidth /\ WalkSteps >= 2) => PrevWidthOfPass = WidthAcceptedBefore

\* ------------------------------------------------------------ h__getMatches

MaxShortSide1 == 7
MaxShortSide2 == 4

\* sides as the frame loop has smoothed them: straight sides, a straight
\* side1 along a rugged side2, a rugged side1 along a straight side2 on its
\* one side and on its other side, two rugged sides; and short straight sides given to h__getMatches as they are
MatchSides ==
    { [s1 |-> Smoothed(f[1]), s2 |-> Smoothed(f[2])] :
        f \in { <<Straight(MinPts, 0), Straight(MinPts, 5)>>,
                <<Straight(MinPts, 0), Straight(MaxPts, 8)>>,
                <<Straight(MinPts, 0), ZigZag(MinPts, 5, 2, 2)>>,
                <<ZigZag(MinPts, 0, 2, 3), Straight(MinPts, 5)>>,
                <<ZigZag(MinPts, 0, 2, 3), Straight(MinPts, 0 - 5)>>,
                <<ZigZag(MinPts, 0, 3, 4), ZigZag(MinPts, 8, 2, 2)>> } }
    \cup { [s1 |-> Straight(n1, 0), s2 |-> Straight(n2, 2)] :
             n1 \in 2..MaxShortSide1, n2 \in 1..MaxShortSide2 }

InitMatch ==
    \E in \in MatchSides :
        /\ SkeletonIdle
        /\ NormIdle
        /\ WalkIdle
        /\ ResampleIdle
        /\ match_sides = in
        /\ match_bounds = << >>
        /\ matching = << >>
        /\ match_outcome = "running"

n_s1_of_match == NPoints(match_sides.s1)

\* left_I, right_I = h__getBounds(s1.shape[1], s2.shape[1], ...), and the
\* start of h__getMatches: match_I = np.zeros(n_s1), match_I[-1] = s2.shape[1],
\* all_signs_used = np.zeros(n_s1)
MatchBounds ==
    /\ match_outcome = "running"
    /\ match_bounds = << >>
    /\ match_bounds' = h__getBounds(n_s1_of_match, NPoints(match_sides.s2),
                                    PERCENT_BACK_SEARCH, PERCENT_FORWARD_SEARCH)
    /\ matching' = [I |-> 1, pass |-> 1, sign_use |-> 0,
                    match_I |-> [i \in 0..(n_s1_of_match - 1) |->
                                   IF i = n_s1_of_match - 1
                                   THEN NPoints(match_sides.s2) ELSE 0],
                    all_signs_used |-> Zeros(n_s1_of_match),
                    tentative |-> << >>]
    /\ UNCHANGED <<match_sides, match_outcome>>

\* the arrays h__getMatches is called with
MatchGiven ==
    MatchInput(compute_normal_vectors(match_sides.s1, 0),
               compute_normal_vectors(match_sides.s1, 1),
               unit_across_of(match_sides.s1, match_sides.s2, 0),
               unit_across_of(match_sides.s1, match_sides.s2, 1),
               d_across_of(match_sides.s1, match_sides.s2),
               match_bounds.left_I, match_bounds.right_I)

InMatch == match_outcome = "running" /\ match_bounds # << >>

\* the next point of the second loop: the first point from I on whose sign
\* is not sign_use, or n_s1 - 1 when there is none
NextBad(I) ==
    IF \E i \in I..(n_s1_of_match - 2) : matching.all_signs_used[i] # matching.sign_use
    THEN CHOOSE i \in I..(n_s1_of_match - 2) :
             /\ matching.all_signs_used[i] # matching.sign_use
             /\ \A k \in I..(i - 1) : matching.all_signs_used[k] = matching.sign_use
    ELSE n_s1_of_match - 1

\* the point the loop is at: I in the first loop, the next of I_bad in the
\* second
MatchPoint == IF matching.pass = 1 THEN matching.I ELSE NextBad(matching.I)

InMatchLoop == InMatch /\ MatchPoint <= n_s1_of_match - 2

\* all_signs_used[I] = sign_used; match_I[I] = dp_I
StoreMatch(I, r) ==
    /\ r.err = "none"
    /\ matching' = [matching EXCEPT !.I = I + 1,
                                    !.match_I[I] = r.I,
                                    !.all_signs_used[I] = r.sign_used]
    /\ UNCHANGED <<match_sides, match_bounds, match_outcome>>

AbandonMatch(r) ==
    /\ r.err # "none"
    /\ match_outcome' = r.err
    /\ UNCHANGED <<match_sides, match_bounds, matching>>

\* one pass of the first loop or of the second loop
MatchProject ==
    /\ InMatchLoop
    /\ StoreMatch(MatchPoint, ProjectionOfPoint(MatchGiven, MatchPoint, matching.sign_use))

\* np.argmin of an empty window raises
MatchRaise ==
    /\ InMatchLoop
    /\ AbandonMatch(ProjectionOfPoint(MatchGiven, MatchPoint, matching.sign_use))

\* the first loop is over and the signs are not all the same: sign_use is
\* set; the matches and signs of the first loop are remembered as tentative
MatchMajority ==
    /\ InMatch
    /\ matching.pass = 1
    /\ ~InMatchLoop
    /\ ~signs_all_same(matching.all_signs_used, n_s1_of_match)
    /\ matching' = [matching EXCEPT !.pass = 2,
                                    !.I = 1,
                                    !.sign_use = sign_use_of(matching.all_signs_used),
                                    !.tentative = [match_I |-> matching.match_I,
                                                   all_signs_used |-> matching.all_signs_used]]
    /\ UNCHANGED <<match_sides, match_bounds, match_outcome>>

\* return (dp_values, match_I)
MatchReturn ==
    /\ InMatch
    /\ ~InMatchLoop
    /\ matching.pass = 1 => signs_all_same(matching.all_signs_used, n_s1_of_match)
    /\ match_outcome' = "returned"
    /\ UNCHANGED <<match_sides, match_bounds, matching>>

NextMatch ==
    \/ MatchBounds /\ UNCHANGED <<skeleton_vars, norm_vars, walk_vars, resample_vars>>
    \/ MatchProject /\ UNCHANGED <<skeleton_vars, norm_vars, walk_vars, resample_vars>>
    \/ MatchRaise /\ UNCHANGED <<skeleton_vars, norm_vars, walk_vars, resample_vars>>
    \/ MatchMajority /\ UNCHANGED <<skeleton_vars, norm_vars, walk_vars, resample_vars>>
    \/ MatchReturn /\ UNCHANGED <<skeleton_vars, norm_vars, walk_vars, resample_vars>>

\* h__getBounds and h__getMatches on one pair of sides
SpecMatch == InitMatch /\ [][NextMatch]_vars

\* what the loops leave is what h__getMatches returns
MatchIsGetMatches ==
    match_outcome = "returned" =>
        matching.match_I =
            h__getMatches(match_sides.s1, match_sides.s2,
                          MatchGiven.norm_x, MatchGiven.norm_y,
                          MatchGiven.dx_across, MatchGiven.dy_across,
                          MatchGiven.d_across,
                          match_bounds.left_I, match_bounds.right_I).match_I

\* ------------------------------------------------------------ the bounds

n_s2_of_match == NPoints(match_sides.s2)

\* (i/(n1-1) - 0.3)*n2 and (i/(n1-1) + 0.3)*n2 as fractions over BandDen
BandLeft(i) == (10 * i - 3 * (n_s1_of_match - 1)) * n_s2_of_match
BandRight(i) == (10 * i + 3 * (n_s1_of_match - 1)) * n_s2_of_match
BandDen == 10 * (n_s1_of_match - 1)

\* L is max(0, floor(BandLeft(i) / BandDen))
IsLeftBound(L, i) ==
    \/ L = 0 /\ BandLeft(i) < BandDen
    \/ L > 0 /\ L * BandDen <= BandLeft(i) /\ BandLeft(i) < (L + 1) * BandDen

\* R is min(n2 - 1, ceil(BandRight(i) / BandDen))
IsRightBound(R, i) ==
    \/ R = n_s2_of_match - 1 /\ BandRight(i) > (R - 1) * BandDen
    \/ R < n_s2_of_match - 1 /\ (R - 1) * BandDen < BandRight(i) /\ BandRight(i) <= R * BandDen

DotsOfPass(dp0) == signed_dp(dp0, flip_of(dp0, matching.sign_use))
WindowDots == DotsOfPass(DotsOfPoint(MatchGiven, MatchPoint))

\* the window positions the scan marks: Ip + 1
MarkedOf(Ip) == { Ip[t] + 1 : t \in DOMAIN Ip }
Marked == MarkedOf(find(possible_of(WindowDots)))

\* the positions with two neighbours whose value is strictly less than both
LocalMinimaOf(dp) ==
    { p \in 1..(Size(dp) - 2) : FLt(dp[p], dp[p - 1]) /\ FLt(dp[p], dp[p + 1]) }
LocalMinima == LocalMinimaOf(WindowDots)

\* C26: the scan marks a window position exactly when its value is strictly
\* less than the values at both neighbouring positions, for every position
\* from the second to the second-to-last of the window
C26_ScanFindsLocalMinima == InMatchLoop => Marked = LocalMinima

\* what the scan marks are the local minima from the second position to the
\* third-to-last
ScanUpToThirdToLast ==
    InMatchLoop => Marked = LocalMinima \ {Size(WindowDots) - 2}

\* ------------------------------------------------------------ the choice

\* the result of the pass the loop is about to make, and the window position
\* it chooses
PassResult == ProjectionOfPoint(MatchGiven, MatchPoint, matching.sign_use)
ChosenPosition == PassResult.I - match_bounds.left_I[MatchPoint]

\* the cross-distance of the point to the side2 point at window position p
WindowDistance(p) ==
    MatchGiven.d_across[MatchPoint][match_bounds.left_I[MatchPoint] + p]

SeveralMinima == InMatchLoop /\ Cardinality(Marked) > 1

\* C25: when the window holds more than one local minimum, the index chosen
\* is the local minimum whose own cross-distance to the side1 point is the
\* smallest among the local minima
C25_NearestLocalMinimum ==
    SeveralMinima =>
        /\ ChosenPosition \in Marked
        /\ \A p \in Marked : WindowDistance(ChosenPosition) <= WindowDistance(p)

\* the local minimum chosen is the one before which the cross-distance is
\* the smallest
NearestBeforeLocalMinimum ==
    SeveralMinima =>
        /\ ChosenPosition \in Marked
        /\ \A p \in Marked :
              WindowDistance(ChosenPosition - 1) <= WindowDistance(p - 1)

\* ------------------------------------------------------------ no local minimum

InteriorPoints == 1..(n_s1_of_match - 2)

\* side1 point I has its match and its sign
IsMatched(I) == match_bounds # << >> /\ matching.all_signs_used[I] # 0

\* the projection over the window of a matched point, with the sign it used
DotsMatched(I) ==
    signed_dp(DotsOfPoint(MatchGiven, I), matching.all_signs_used[I] = 1)

\* c is the first position where dp is least
IsGlobalMinimum(c, dp) ==
    /\ c \in DOMAIN dp
    /\ \A p \in DOMAIN dp : dp[c] <= dp[p]
    /\ \A p \in DOMAIN dp : p < c => dp[c] < dp[p]

GlobalMinimumMatch(I, dp) ==
    LocalMinimaOf(dp) = {} =>
        IsGlobalMinimum(matching.match_I[I] - match_bounds.left_I[I], dp)

\* C27: when the window of a side1 point holds no local minimum of the
\* projection, the index chosen is the position of the global minimum of the
\* sign-adjusted projection over the whole window, plus the left bound
C27_GlobalMinimum ==
    \A I \in InteriorPoints :
        IsMatched(I) => GlobalMinimumMatch(I, DotsMatched(I))

\* a matched point of full-length sides without a local minimum, whose global
\* minimum is not at the first position of a window of several positions
NoMinimumAt(I, dp) ==
    /\ Size(dp) > 3
    /\ LocalMinimaOf(dp) = {}
    /\ matching.match_I[I] > match_bounds.left_I[I]

C27_Witness ==
    /\ match_outcome = "returned"
    /\ n_s1_of_match = MinPts
    /\ \E I \in InteriorPoints : NoMinimumAt(I, DotsMatched(I))

\* ------------------------------------------------------------ one sign

\* the interior points whose sign in signs is sign
PointsOfSign(signs, sign) == { I \in InteriorPoints : signs[I] = sign }

\* +1 when more interior points chose +1 than -1, otherwise -1
MajorityOf(signs) ==
    IF Cardinality(PointsOfSign(signs, 1)) > Cardinality(PointsOfSign(signs, 0 - 1))
    THEN 1 ELSE 0 - 1

SignsDisagree(signs) ==
    \E I, J \in InteriorPoints : signs[I] # signs[J]

\* the signs of the first loop: remembered when a second loop was made, and
\* otherwise the signs the call returns with
TentativeSigns ==
    IF matching.tentative = << >> THEN matching.all_signs_used
    ELSE matching.tentative.all_signs_used

TentativeMatches ==
    IF matching.tentative = << >> THEN matching.match_I
    ELSE matching.tentative.match_I

\* every point of another sign is matched again with the sign, every point of
\* the sign keeps its match
RematchedWith(sign, signs) ==
    \A I \in InteriorPoints :
        /\ matching.all_signs_used[I] = sign
        /\ signs[I] = sign => matching.match_I[I] = TentativeMatches[I]
        /\ signs[I] # sign =>
              matching.match_I[I] = ProjectionOfPoint(MatchGiven, I, sign).I

\* C28: when h__getMatches returns, one sign has been used for every interior
\* side1 point; if the tentative signs disagree it is the sign of the
\* majority (+1 when more points chose +1 than -1, otherwise -1), every point
\* whose tentative sign differs is matched again with it, and every point
\* whose tentative sign equals it keeps its tentative match
C28_OneSign ==
    match_outcome = "returned" =>
        /\ ~SignsDisagree(matching.all_signs_used)
        /\ SignsDisagree(TentativeSigns) =>
              RematchedWith(MajorityOf(TentativeSigns), TentativeSigns)
        /\ (matching.tentative # << >>) = SignsDisagree(TentativeSigns)

\* a return after tentative signs that disagreed, where a point matched again
\* has another match than its tentative one
RematchedElsewhere(sign) ==
    /\ match_outcome = "returned"
    /\ n_s1_of_match = MinPts
    /\ SignsDisagree(TentativeSigns)
    /\ MajorityOf(TentativeSigns) = sign
    /\ \E I \in InteriorPoints : matching.match_I[I] # TentativeMatches[I]

C28_Witness == RematchedElsewhere(0 - 1)

\* ------------------------------------------------------------ the window

\* the window lb:rb of side1 point I holds a side2 candidate
WindowHasCandidate(I) == Size(DotsOfPoint(MatchGiven, I)) > 0

InsideWindow(I) ==
    /\ match_bounds.left_I[I] <= matching.match_I[I]
    /\ matching.match_I[I] <= match_bounds.right_I[I]

\* every interior point has or gets a match, and one inside its window
MatchesInsideWindows ==
    /\ match_outcome \in {"running", "returned"}
    /\ \A I \in InteriorPoints :
          /\ WindowHasCandidate(I)
          /\ IsMatched(I) => InsideWindow(I)

MatchInsideWindowOfLongerSide ==
    (match_bounds # << >> /\ n_s1_of_match >= 2 /\ n_s2_of_match >= 4) =>
        MatchesInsideWindows

====
